---- MODULE Spec2Model ----
(***************************************************************************)
(* State-machine model of the school administration backend (Django/DRF):  *)
(* api/models.py, api/serializers.py, api/views.py, api/urls.py, the       *)
(* management commands seed_data, create_demo_data and generate_reports,   *)
(* and populate_timetable.py.                                              *)
(*                                                                         *)
(* The relational tables are the variables.  Every request handler is one  *)
(* action; a handler that issues several autocommitted writes              *)
(* (create_class_fee) or that validates and then writes (attendance        *)
(* create/update) is split at its database statements, so that requests    *)
(* of other clients interleave exactly where the database lets them.       *)
(* Python floats are modelled as exact rationals (num/den).                *)
(***************************************************************************)
EXTENDS Integers, Sequences, FiniteSets, TLC

\* ------------------------------------------------------------------ bounds
NumStudents == 2
NumTeachers == 2
NumClasses == 1
MaxFeeId == 2
MaxAttId == 2
MaxAttRows == 3
MaxTaskId == 2
MaxClock == 2
MaxNotificationId == 3
MaxNewUsers == 2
MaxRuns == 2
MaxTimetableId == 5
MaxPathLen == 4

\* ---------------------------------------------------------------- universe
\* the database NULL (null=True columns); ids and amounts are positive
NULL == 0

StudentUsers == 1..NumStudents
TeacherUsers == (NumStudents + 1)..(NumStudents + NumTeachers)
PrincipalUser == NumStudents + NumTeachers + 1
UserIds == 1..PrincipalUser

\* class ids a request may name; NumClasses + 1 never exists
ClassIds == 1..NumClasses
RequestClassIds == 1..(NumClasses + 1)

\* request values for Fee.amount (NULL: the key is missing from request.data)
Amounts == {1500, 3000}
RequestAmounts == Amounts \cup {NULL}
DueDates == {"2024-06-01"}

\* models.py Fee.Status
FeeStatus == {"paid", "unpaid", "partial"}
FeeStatusDefault == "unpaid"

\* models.py Attendance.Status
AttStatus == {"present", "absent", "late"}
DateSeq == <<"2024-05-01", "2024-05-02", "2024-05-03">>
\* the dates the attendance write requests name
RequestDates == {DateSeq[1], DateSeq[2]}

\* models.py Task.Status
TaskStatus == {"pending", "in_progress", "completed", "cancelled"}

\* a key missing from the request data, and the Python None
ABSENT == "absent"
NONE == "none"
\* request values of the student and teacher updates
InvalidEmail == "invalid-email"
Phones == {"7778889999"}
\* {"user": {"email": e, "first_name": f,
\*           "profile": {"phone": p, "address": a}},
\*  "qualification": q};
\* has_profile tells whether the "profile" key is there
UpdateRequests ==
    {d \in [email : {"hacked@test.com", InvalidEmail, ABSENT},
            first_name : {"Johnny", ABSENT},
            has_profile : BOOLEAN,
            phone : Phones \cup {NONE, ABSENT},
            address : {"Updated Address", ABSENT},
            qualification : {"PhD", ABSENT}] :
        ~d.has_profile => (d.phone = ABSENT /\ d.address = ABSENT)}
StudentUpdateRequests == {d \in UpdateRequests : d.qualification = ABSENT}
\* the requests that name the email alone
EmailRequests(requests) ==
    {d \in requests :
        d.first_name = ABSENT /\ ~d.has_profile /\ d.qualification = ABSENT}

\* ------------------------------------------------------------------- state
VARIABLES
    users,       \* User table: user id -> [role, email, first_name, username]
    profiles,    \* UserProfile table: set of [id, user, phone, address]
    teachers,    \* Teacher table: teacher (user) id -> [qualification]
    classes,     \* SchoolClass table: set of class ids
    students,    \* Student table: student (user) id -> [school_class]
    timetable,   \* Timetable table: set of [id, school_class]
    assignments, \* Assignment table: set of [id, school_class]
    grades,      \* Grade table: set of [id, student, assignment]
    fees,        \* Fee table: set of [id, student, amount, due_date, status]
    nextFeeId,   \* Fee primary-key sequence
    ccf,         \* the create_class_fee request in flight (FeeActionsView.post)
    attendance,  \* Attendance table: set of [id, student, date, status]
    nextAttId,   \* Attendance primary-key sequence
    attReq,      \* per client: the validated attendance write not yet saved
    tasks,       \* Task table: set of [id, teacher, status, completed_at]
    nextTaskId,  \* Task primary-key sequence
    now,         \* timezone.now()
    notifications, \* Notification table: set of [id, user, amount,
                   \* due_date, fee]
    nextNotificationId, \* Notification primary-key sequence
    sr,          \* the send_reminders request in flight (FeeActionsView.post)
    summaryCache, \* cache_page entry of GET /reports/fees-summary/
    reportDirs,  \* reports/report_<timestamp>/: timestamp -> set of files
    gen,         \* per run of generate_reports: its position in handle()
    periods,     \* Period table: period_number -> [start_time, end_time]
    nextTimetableId, \* Timetable primary-key sequence
    taskReq,     \* per client: the task request between its read and save
    listCache,   \* cache_page entries of GET /students/ and GET /teachers/
    resp         \* the response of the request that completed last

userVars == <<users, profiles, teachers>>
classVars == <<classes, timetable, assignments>>
feeVars == <<fees, nextFeeId, ccf>>
attVars == <<attendance, nextAttId, attReq>>
taskVars == <<tasks, nextTaskId, now>>
fileVars == <<reportDirs, gen>>
seedVars == <<periods, nextTimetableId>>
clientVars == <<taskReq, listCache>>
reportVars == <<notifications, nextNotificationId, sr, summaryCache,
                fileVars, seedVars, clientVars>>
vars == <<users, profiles, teachers, classes, students, timetable,
          assignments, grades, fees, nextFeeId, ccf, attendance, nextAttId,
          attReq, tasks, nextTaskId, now, notifications,
          nextNotificationId, sr, summaryCache, reportDirs, gen, periods,
          nextTimetableId, taskReq, listCache, resp>>

NoResp == [op |-> "none"]
CcfIdle == [pc |-> "idle"]
SrIdle == [pc |-> "idle"]
GenIdle == [pc |-> "idle"]
TaskIdle == [pc |-> "idle"]
\* the list endpoints behind cache_page(300)
CachedLists == {"students", "teachers"}
NoCache == [valid |-> FALSE]
AttIdle == [pc |-> "idle"]

\* models.py User.Role; the seeded accounts: students first, then teachers,
\* then the principal
RoleOf(u) ==
    IF u \in StudentUsers THEN "student"
    ELSE IF u \in TeacherUsers THEN "teacher" ELSE "principal"

\* the accounts every specification starts with; their usernames are their
\* ids in writing
SeededUsers ==
    [u \in UserIds |-> [role |-> RoleOf(u), email |-> "a@test.com",
                        first_name |-> "John", username |-> ToString(u)]]

\* the clients whose attendance writes may be in flight at the same time
Clients == {"a", "b"}

\* ----------------------------------------------------------------- helpers
\* dict.get(key, default)
Get(value, default) == IF value = ABSENT THEN default ELSE value

RECURSIVE SetToSeq(_)
\* a queryset without order_by over a pk-indexed table: rows by ascending pk
SetToSeq(S) ==
    IF S = {} THEN <<>>
    ELSE LET m == CHOOSE x \in S : \A y \in S : x <= y
         IN <<m>> \o SetToSeq(S \ {m})

RECURSIVE RowsByPk(_)
\* the rows of a queryset without order_by, by ascending pk
RowsByPk(S) ==
    IF S = {} THEN <<>>
    ELSE LET m == CHOOSE x \in S : \A y \in S : x.id <= y.id
         IN <<m>> \o RowsByPk(S \ {m})

\* school_class.students.all(): the students whose school_class is c
ClassStudentsAny(c) == DOMAIN students
ClassStudents(c) == {s \in DOMAIN students : students[s].school_class = c}

\* Fee.objects.create(student=, amount=, due_date=): status takes its default
NewFee(id, s, amount, due) ==
    [id |-> id, student |-> s, amount |-> amount, due_date |-> due,
     status |-> FeeStatusDefault]

\* on_delete=CASCADE of Fee.student
FeesAfterStudentDelete(s) == {f \in fees : f.student # s}

\* ------------------------------------------------------- FeeActionsView.post
\* One Fee.objects.create of the loop; each runs in its own transaction
\* (autocommit: the view opens no transaction.atomic block).  An INSERT
\* fails with IntegrityError when amount is NULL or when the student row was
\* deleted after the roster was read; the exception leaves the view (500)
\* and the rows inserted before it stay.
CcfRun(frame) ==
    IF frame.count = Len(frame.roster)
    THEN /\ ccf' = CcfIdle
         /\ resp' = [op |-> "create_class_fee", status |-> 201,
                     count |-> frame.count, class_id |-> frame.class_id,
                     amount |-> frame.amount, due_date |-> frame.due_date,
                     members |-> frame.members, created |-> frame.created]
    ELSE /\ ccf' = frame
         /\ resp' = NoResp

CreateClassFeeBegin(class_id, amount, due) ==
    /\ ccf.pc = "idle"
    /\ UNCHANGED <<userVars, classVars, students, grades, attVars, taskVars,
                   fees, nextFeeId, reportVars>>
    /\ IF class_id \notin classes
       THEN \* SchoolClass.DoesNotExist is not caught
            /\ resp' = [op |-> "create_class_fee", status |-> 500,
                        class_id |-> class_id, created |-> {}]
            /\ UNCHANGED ccf
       ELSE /\ nextFeeId + Cardinality(ClassStudents(class_id)) <= MaxFeeId + 1
            /\ CcfRun([pc |-> "loop", class_id |-> class_id, amount |-> amount,
                       due_date |-> due,
                       roster |-> SetToSeq(ClassStudents(class_id)),
                       members |-> {s \in DOMAIN students :
                                       students[s].school_class = class_id},
                       count |-> 0, created |-> {}])

CreateClassFeeStep ==
    /\ ccf.pc = "loop"
    /\ ccf.count < Len(ccf.roster)
    /\ UNCHANGED <<userVars, classVars, students, grades, attVars, taskVars,
                   reportVars>>
    /\ LET s == ccf.roster[ccf.count + 1]
           row == NewFee(nextFeeId, s, ccf.amount, ccf.due_date)
       IN IF ccf.amount = NULL \/ s \notin DOMAIN students
          THEN /\ ccf' = CcfIdle
               /\ resp' = [op |-> "create_class_fee", status |-> 500,
                           class_id |-> ccf.class_id, created |-> ccf.created]
               /\ UNCHANGED <<fees, nextFeeId>>
          ELSE /\ fees' = fees \cup {row}
               /\ nextFeeId' = nextFeeId + 1
               /\ CcfRun([ccf EXCEPT !.count = @ + 1,
                                     !.created = @ \cup {row}])

\* Fee.objects.filter(status__in=[Fee.Status.UNPAID, Fee.Status.PARTIAL])
ReminderFeesUnpaidOnly(rows) == {f \in rows : f.status = "unpaid"}
\* a filter that leaves out the fees that had a reminder before
ReminderFeesOnce(rows) ==
    {f \in rows : /\ f.status \in {"unpaid", "partial"}
                  /\ \A n \in notifications : n.fee # f.id}
ReminderFees(rows) == {f \in rows : f.status \in {"unpaid", "partial"}}

\* the send_reminders branch: the `for` evaluates the queryset once, then
\* each turn loads fee.student and its user and inserts one Notification in
\* its own transaction.  `fees_at_call`, `notifications_at_call` and
\* `created` record the tables the call found and the rows it inserted;
\* `fee` of a Notification row records the fee its message was written for.
SrRun(frame) ==
    IF frame.count = Len(frame.queue)
    THEN /\ sr' = SrIdle
         /\ resp' = [op |-> "send_reminders", status |-> 200,
                     count |-> frame.count,
                     fees_at_call |-> frame.fees_at_call,
                     notifications_at_call |-> frame.notifications_at_call,
                     created |-> frame.created]
    ELSE /\ sr' = frame
         /\ resp' = NoResp

SendRemindersBegin ==
    /\ sr.pc = "idle"
    /\ nextNotificationId + Cardinality(ReminderFees(fees))
          <= MaxNotificationId + 1
    /\ UNCHANGED <<userVars, classVars, students, grades, feeVars, attVars,
                   taskVars, notifications, nextNotificationId,
                   summaryCache, fileVars, seedVars, clientVars>>
    /\ SrRun([pc |-> "loop", queue |-> RowsByPk(ReminderFees(fees)),
              fees_at_call |-> fees, notifications_at_call |-> notifications,
              count |-> 0, created |-> {}])

\* fee.student is loaded when the turn reaches it: Student.DoesNotExist when
\* the student was deleted after the queryset was read; nothing catches it
\* (500) and the notifications inserted before it stay
SendRemindersStep ==
    /\ sr.pc = "loop"
    /\ sr.count < Len(sr.queue)
    /\ UNCHANGED <<userVars, classVars, students, grades, feeVars, attVars,
                   taskVars, summaryCache, fileVars, seedVars,
                   clientVars>>
    /\ LET fee == sr.queue[sr.count + 1]
           row == [id |-> nextNotificationId, user |-> fee.student,
                   amount |-> fee.amount, due_date |-> fee.due_date,
                   fee |-> fee.id]
       IN IF fee.student \notin DOMAIN students
          THEN /\ sr' = SrIdle
               /\ resp' = [op |-> "send_reminders", status |-> 500,
                           fees_at_call |-> sr.fees_at_call,
                           created |-> sr.created]
               /\ UNCHANGED <<notifications, nextNotificationId>>
          ELSE /\ notifications' = notifications \cup {row}
               /\ nextNotificationId' = nextNotificationId + 1
               /\ SrRun([sr EXCEPT !.count = @ + 1,
                                   !.created = @ \cup
                                      {[id |-> row.id, user |-> row.user,
                                        fee |-> fee.id]}])

\* ------------------------------------------------- ReportViewSet.fees_summary
RECURSIVE SumAmounts(_)
\* aggregate(total=Sum('amount'))['total'] or 0
SumAmounts(rows) ==
    IF rows = {} THEN 0
    ELSE LET f == CHOOSE x \in rows : TRUE
         IN f.amount + SumAmounts(rows \ {f})

\* Fee.objects.filter(status='paid')
PaidFees == {f \in fees : f.status = "paid"}
\* Fee.objects.filter(status__in=['unpaid', 'partial'])
UnpaidFees == {f \in fees : f.status \in {"unpaid", "partial"}}

PieChartData ==
    [paid_count |-> Cardinality(PaidFees),
     paid_total |-> SumAmounts(PaidFees),
     unpaid_count |-> Cardinality(UnpaidFees),
     unpaid_total |-> SumAmounts(UnpaidFees)]

\* student__school_class__name of a fee: the class of its student (a class is
\* known by its unique name), None for a student without a class
FeeClass(f) == students[f.student].school_class

\* unpaid_fees.values('student__school_class__name').annotate(
\*     total_pending=Sum('amount'), student_count=Count('student',
\*     distinct=True)): one group per value of the name, None included
ClassGroups ==
    {[school_class |-> c,
      total_pending |-> SumAmounts({f \in UnpaidFees : FeeClass(f) = c}),
      student_count |->
          Cardinality({f.student :
                          f \in {x \in UnpaidFees : FeeClass(x) = c}})] :
       c \in {FeeClass(f) : f \in UnpaidFees}}

\* .order_by('-total_pending'): the groups in every order the database may
\* give them, equal totals in any order
ClassBreakdowns ==
    {b \in [1..Cardinality(ClassGroups) -> ClassGroups] :
        /\ \A i, j \in DOMAIN b : i # j => b[i] # b[j]
        /\ \A i, j \in DOMAIN b :
              i < j => b[i].total_pending >= b[j].total_pending}

\* GET /reports/fees-summary/ behind cache_page(600): the first response is
\* stored and served again, without running the view, until it expires
FeesSummary ==
    /\ UNCHANGED <<userVars, classVars, students, grades, feeVars, attVars,
                   taskVars, notifications, nextNotificationId, sr,
                   fileVars, seedVars, clientVars>>
    /\ IF summaryCache.valid
       THEN /\ resp' = [op |-> "fees_summary", status |-> 200,
                        from_cache |-> TRUE,
                        pie_chart |-> summaryCache.pie_chart,
                        class_breakdown |-> summaryCache.class_breakdown]
            /\ UNCHANGED summaryCache
       ELSE \E b \in ClassBreakdowns :
               /\ resp' = [op |-> "fees_summary", status |-> 200,
                           from_cache |-> FALSE,
                           pie_chart |-> PieChartData, class_breakdown |-> b]
               /\ summaryCache' = [valid |-> TRUE, pie_chart |-> PieChartData,
                                   class_breakdown |-> b]

\* the 600 seconds of the cache entry are over
SummaryCacheExpire ==
    /\ summaryCache.valid
    /\ summaryCache' = NoCache
    /\ resp' = NoResp
    /\ UNCHANGED <<userVars, classVars, students, grades, feeVars, attVars,
                   taskVars, notifications, nextNotificationId, sr,
                   fileVars, seedVars, clientVars>>

\* ---------------------------------------------------------------- FeeViewSet
\* POST /fees/{id}/pay/: the router registers FeeViewSet, a plain
\* ModelViewSet with no extra @action, so no route matches: 404, no write.
PayFee(id) ==
    /\ \E f \in fees : f.id = id
    /\ resp' = [op |-> "pay", status |-> 404, fee |-> id]
    /\ UNCHANGED <<userVars, classVars, students, grades, feeVars, attVars,
                   taskVars, reportVars>>

\* PATCH /fees/{id}/ {"status": st}: ModelViewSet.partial_update
UpdateFee(id, st) ==
    /\ \E f \in fees : f.id = id
    /\ fees' = {IF f.id = id THEN [f EXCEPT !.status = st] ELSE f : f \in fees}
    /\ resp' = [op |-> "update_fee", status |-> 200]
    /\ UNCHANGED <<userVars, classVars, students, grades, nextFeeId, ccf,
                   attVars, taskVars, reportVars>>

\* ------------------------------------------------------------ StudentViewSet
\* DELETE /students/{id}/: ModelViewSet.destroy; the rows that reference the
\* Student with on_delete=CASCADE (Fee, Attendance, Grade) go with it, the
\* User row stays
DeleteStudent(s) ==
    /\ s \in DOMAIN students
    /\ students' = [x \in DOMAIN students \ {s} |-> students[x]]
    /\ fees' = FeesAfterStudentDelete(s)
    /\ attendance' = {r \in attendance : r.student # s}
    /\ grades' = {g \in grades : g.student # s}
    /\ resp' = [op |-> "delete_student", status |-> 204]
    /\ UNCHANGED <<userVars, classVars, nextFeeId, ccf, nextAttId, attReq,
                   taskVars, reportVars>>

\* --------------------------------------------------------- AttendanceViewSet
\* Meta.unique_together = ('student', 'date'): the database constraint, as it
\* bears on a row written beside the rows `rows`
NoUniqueTogether(rows, s, d) == FALSE
UniqueTogether(rows, s, d) == \E r \in rows : r.student = s /\ r.date = d

\* the UniqueTogetherValidator a ModelSerializer derives from unique_together:
\* a query at validation time, which leaves out the instance being updated
UniqueTogetherValidator(rows, s, d) ==
    \E r \in rows : r.student = s /\ r.date = d

AttResp(kind, code, s, d) ==
    [op |-> "attendance", kind |-> kind, status |-> code, student |-> s,
     date |-> d]

\* POST /attendance/ {student, date, status}, up to serializer.is_valid()
AttendanceCreateValidate(c, s, d, st) ==
    /\ attReq[c].pc = "idle"
    /\ nextAttId + Cardinality({x \in Clients : attReq[x].pc = "validated"
                                               /\ attReq[x].kind = "create"})
          <= MaxAttId
    /\ UNCHANGED <<userVars, classVars, students, grades, feeVars, taskVars,
                   attendance, nextAttId, reportVars>>
    /\ IF s \notin DOMAIN students
          \/ UniqueTogetherValidator(attendance, s, d)
       THEN resp' = AttResp("create", 400, s, d) /\ UNCHANGED attReq
       ELSE /\ attReq' = [attReq EXCEPT ![c] =
                            [pc |-> "validated", kind |-> "create",
                             id |-> NULL, student |-> s, date |-> d,
                             status |-> st]]
            /\ resp' = NoResp

\* PATCH /attendance/{id}/ {date}, up to serializer.is_valid(); the student
\* and the status of the validated data are the instance's
AttendanceUpdateValidate(c, id, d) ==
    /\ attReq[c].pc = "idle"
    /\ id \in 1..MaxAttId
    /\ UNCHANGED <<userVars, classVars, students, grades, feeVars, taskVars,
                   attendance, nextAttId, reportVars>>
    /\ IF \A r \in attendance : r.id # id
       THEN resp' = [op |-> "attendance", kind |-> "update", status |-> 404]
            /\ UNCHANGED attReq
       ELSE LET inst == CHOOSE r \in attendance : r.id = id
            IN IF UniqueTogetherValidator(attendance \ {inst},
                                          inst.student, d)
               THEN resp' = AttResp("update", 400, inst.student, d)
                    /\ UNCHANGED attReq
               ELSE /\ attReq' = [attReq EXCEPT ![c] =
                                    [pc |-> "validated", kind |-> "update",
                                     id |-> id, student |-> inst.student,
                                     date |-> d, status |-> inst.status]]
                    /\ resp' = NoResp

\* serializer.save(): Model.save() writes the row (UPDATE by pk, INSERT when
\* no row has that pk); the database rejects a missing student (foreign key)
\* or a second row for (student, date) with IntegrityError, which no handler
\* catches (500)
AttendanceSave(c) ==
    /\ attReq[c].pc = "validated"
    /\ UNCHANGED <<userVars, classVars, students, grades, feeVars, taskVars,
                   reportVars>>
    /\ LET req == attReq[c]
           id == IF req.kind = "create" THEN nextAttId ELSE req.id
           others == {r \in attendance : r.id # id}
           row == [id |-> id, student |-> req.student, date |-> req.date,
                   status |-> req.status]
       IN /\ attReq' = [attReq EXCEPT ![c] = AttIdle]
          /\ IF req.student \notin DOMAIN students
                \/ UniqueTogether(others, req.student, req.date)
             THEN /\ resp' = AttResp(req.kind, 500, req.student, req.date)
                  /\ UNCHANGED <<attendance, nextAttId>>
             ELSE /\ attendance' = others \cup {row}
                  /\ nextAttId' = IF req.kind = "create" THEN nextAttId + 1
                                  ELSE nextAttId
                  /\ resp' = AttResp(req.kind,
                                     IF req.kind = "create" THEN 201 ELSE 200,
                                     req.student, req.date)

\* DELETE /attendance/{id}/
AttendanceDelete(id) ==
    /\ \E r \in attendance : r.id = id
    /\ attendance' = {r \in attendance : r.id # id}
    /\ resp' = [op |-> "attendance", kind |-> "delete", status |-> 204]
    /\ UNCHANGED <<userVars, classVars, students, grades, feeVars, taskVars,
                   nextAttId, attReq, reportVars>>

\* ------------------------------------ StudentDashboardView, StudentDetailView
\* a Python number as an exact fraction
Rat(n, d) == [num |-> n, den |-> d]

\* round(x, 1): to the nearest tenth, a tie to the even tenth
RoundOneDecimal(x) ==
    LET q == (x.num * 10) \div x.den
        r == (x.num * 10) % x.den
    IN Rat(IF 2 * r > x.den \/ (2 * r = x.den /\ q % 2 = 1) THEN q + 1 ELSE q,
           10)

\* len([record for record in attendance_records
\*      if record.status in [PRESENT, LATE]])
PresentDaysOnlyPresent(records) ==
    Cardinality({r \in records : r.status = "present"})
PresentDays(records) ==
    Cardinality({r \in records : r.status \in {"present", "late"}})

\* stats_data["attendanceRate"] of the dashboard of student s
DashboardAttendanceRate(s) ==
    LET attendance_records == {r \in attendance : r.student = s}
        total_days == Cardinality(attendance_records)
        present_days == PresentDays(attendance_records)
        attendance_rate == IF total_days > 0
                           THEN Rat(present_days * 100, total_days)
                           ELSE Rat(100, 1)
    IN RoundOneDecimal(attendance_rate)

\* data['attendance_rate'] of the detail view of student s
DetailAttendanceRate(s) ==
    LET attendance_records == {r \in attendance : r.student = s}
        present == {r \in attendance_records : r.status \in {"present", "late"}}
    IN IF Cardinality(attendance_records) > 0
       THEN Rat(Cardinality(present) * 100, Cardinality(attendance_records))
       ELSE Rat(0, 1)

\* GET /student/dashboard/ by the authenticated user u
GetDashboard(u) ==
    /\ resp' = IF users[u].role # "student"
               THEN [op |-> "dashboard", status |-> 403]
               ELSE IF u \notin DOMAIN students
               THEN [op |-> "dashboard", status |-> 404]
               ELSE [op |-> "dashboard", status |-> 200, student |-> u,
                     rate |-> DashboardAttendanceRate(u)]
    /\ UNCHANGED <<userVars, classVars, students, grades, feeVars, attVars,
                   taskVars, reportVars>>

\* the permission test of the detail view with the test left out
DetailOpenToAll(caller, student_id) == FALSE

\* request.user.role == 'student' and request.user != student.user
DetailDenied(caller, student_id) ==
    users[caller].role = "student" /\ caller # student_id

\* the serialized record, attendance, grades and fees of student s
DetailData(s) ==
    [student |-> [user |-> s, school_class |-> students[s].school_class],
     attendance |-> {r \in attendance : r.student = s},
     grades |-> {g \in grades : g.student = s},
     fees |-> {f \in fees : f.student = s}]

\* GET /student/{student_id}/details/ by the authenticated user `caller`
GetStudentDetail(caller, student_id) ==
    /\ resp' = IF student_id \notin DOMAIN students
               THEN [op |-> "student_detail", status |-> 404,
                     student |-> student_id, caller |-> caller]
               ELSE IF DetailDenied(caller, student_id)
               THEN [op |-> "student_detail", status |-> 403,
                     student |-> student_id, caller |-> caller]
               ELSE [op |-> "student_detail", status |-> 200,
                     student |-> student_id, caller |-> caller,
                     data |-> DetailData(student_id),
                     rate |-> DetailAttendanceRate(student_id)]
    /\ UNCHANGED <<userVars, classVars, students, grades, feeVars, attVars,
                   taskVars, reportVars>>

\* ------------------------------------------- generate_reports (Command.handle)
\* --report-type values; the output format is the default, json
ReportTypes == {"all", "financial"}

\* the files handle() writes, in its order: one save_report per report of
\* the type, the summary report, then metadata.json and README.txt
ReportFiles(report_type) ==
    (IF report_type = "all"
     THEN <<"academic/academic_reports.json",
            "financial/financial_reports.json",
            "attendance/attendance_reports.json",
            "performance/performance_reports.json">>
     ELSE <<"financial/financial_reports.json">>)
    \o <<"summary/summary_report.json", "metadata.json", "README.txt">>

\* open(name, 'w') and a write: the file is created or truncated, and holds
\* what this run wrote
WriteFile(files, name, run, report_type) ==
    {f \in files : f.name # name}
        \cup {[name |-> name, run |-> run, report_type |-> report_type]}

\* os.makedirs(report_dir, exist_ok=True)
MakeDirs(dirs, timestamp) ==
    [t \in DOMAIN dirs \cup {timestamp} |->
        IF t \in DOMAIN dirs THEN dirs[t] ELSE {}]

\* the run takes timezone.now() to the second as the name of its directory
GenerateBegin(run, report_type) ==
    /\ gen[run].pc = "idle"
    /\ reportDirs' = MakeDirs(reportDirs, now)
    /\ gen' = [gen EXCEPT ![run] =
                  [pc |-> "writing", timestamp |-> now,
                   report_type |-> report_type,
                   queue |-> ReportFiles(report_type)]]
    /\ UNCHANGED <<userVars, classVars, students, grades, feeVars, attVars,
                   taskVars, notifications, nextNotificationId, sr,
                   summaryCache, seedVars, clientVars, resp>>

\* one file of the run is written; the command ends after the last one
GenerateStep(run) ==
    /\ gen[run].pc = "writing"
    /\ LET g == gen[run]
       IN  /\ reportDirs' =
                 [reportDirs EXCEPT ![g.timestamp] =
                     WriteFile(@, Head(g.queue), run, g.report_type)]
           /\ IF Len(g.queue) > 1
              THEN /\ gen' = [gen EXCEPT ![run].queue = Tail(@)]
                   /\ UNCHANGED resp
              ELSE /\ gen' = [gen EXCEPT ![run] =
                                [pc |-> "done", timestamp |-> g.timestamp,
                                 report_type |-> g.report_type]]
                   /\ resp' = [op |-> "generate_reports", status |-> 0,
                               run |-> run, report_dir |-> g.timestamp]
    /\ UNCHANGED <<userVars, classVars, students, grades, feeVars, attVars,
                   taskVars, notifications, nextNotificationId, sr,
                   summaryCache, seedVars, clientVars>>

\* ------------------------------------------ ReportManagementViewSet.download
\* A path string is a flag for a leading "/" and its components; a
\* component is written as the pieces of its name, so that one name can be
\* the beginning of another ("reports", "reports" "_backup").
Parent == <<"..">>
Srv == <<"srv">>
Reports == <<"reports">>
ReportsBackup == <<"reports", "_backup">>
Report1 == <<"report_1">>
Report2 == <<"report_2">>
Metadata == <<"metadata.json">>
PathNames == {Parent, ReportsBackup, Metadata}

\* settings.BASE_DIR and os.path.join(settings.BASE_DIR, 'reports')
BaseDir == [abs |-> TRUE, segs |-> <<Srv>>]
Relative(segs) == [abs |-> FALSE, segs |-> segs]

\* the directories and the files of the machine
Directories ==
    {<<>>, <<Srv>>, <<Srv, Reports>>, <<Srv, Reports, Report1>>,
     <<Srv, ReportsBackup>>}
Files ==
    {[path |-> <<Srv, Reports, Report1, Metadata>>, data |-> "metadata"],
     [path |-> <<Srv, ReportsBackup, Metadata>>, data |-> "backup"],
     [path |-> <<Srv, Metadata>>, data |-> "settings"]}

\* os.path.join: a component that starts with "/" drops what is before it
PathJoin(a, b) ==
    IF b.abs THEN b ELSE [abs |-> a.abs, segs |-> a.segs \o b.segs]

\* os.path.abspath of an absolute path: ".." takes the component before it
\* away, by the text alone
RECURSIVE NormSegs(_, _)
NormSegs(done, rest) ==
    IF rest = <<>> THEN done
    ELSE IF Head(rest) = Parent
    THEN NormSegs(IF done = <<>> THEN done
                  ELSE SubSeq(done, 1, Len(done) - 1), Tail(rest))
    ELSE NormSegs(Append(done, Head(rest)), Tail(rest))
AbsPath(p) == [abs |-> TRUE, segs |-> NormSegs(<<>>, p.segs)]

\* the text of an absolute path, piece by piece
RECURSIVE PathString(_)
PathString(segs) ==
    IF segs = <<>> THEN <<>>
    ELSE <<"/">> \o Head(segs) \o PathString(Tail(segs))

\* str.startswith
StartsWith(text, prefix) ==
    /\ Len(text) >= Len(prefix)
    /\ SubSeq(text, 1, Len(prefix)) = prefix

\* the file the operating system finds for a path: every component it goes
\* through must be a directory
RECURSIVE Resolve(_, _)
Resolve(cur, rest) ==
    IF rest = <<>> THEN [ok |-> TRUE, segs |-> cur]
    ELSE IF cur \notin Directories THEN [ok |-> FALSE, segs |-> cur]
    ELSE IF Head(rest) = Parent
    THEN Resolve(IF cur = <<>> THEN cur
                 ELSE SubSeq(cur, 1, Len(cur) - 1), Tail(rest))
    ELSE Resolve(Append(cur, Head(rest)), Tail(rest))

\* os.path.exists(full_path) and os.path.isfile(full_path)
IsFile(p) ==
    LET r == Resolve(<<>>, p.segs)
    IN  r.ok /\ \E f \in Files : f.path = r.segs

\* GET .../{pk}/download/?path=file_path
DownloadResponse(pk, file_path) ==
    LET reports_base_dir == PathJoin(BaseDir, Relative(<<Reports>>))
        full_path == PathJoin(PathJoin(reports_base_dir, Relative(<<pk>>)),
                              file_path)
        ask == [op |-> "download", pk |-> pk, path |-> file_path,
                full_path |-> AbsPath(full_path).segs]
    IN  IF file_path = Relative(<<>>)
        THEN ask @@ [status |-> 400,
                     error |-> "File path parameter is required"]
        ELSE IF ~StartsWith(PathString(AbsPath(full_path).segs),
                            PathString(AbsPath(reports_base_dir).segs))
        THEN ask @@ [status |-> 400, error |-> "Invalid file path"]
        ELSE IF ~IsFile(full_path)
        THEN ask @@ [status |-> 404, error |-> "File not found"]
        ELSE ask @@ [status |-> 200,
                     body |-> (CHOOSE f \in Files :
                                 f.path = Resolve(<<>>, full_path.segs).segs
                              ).data]

Download(pk, file_path) ==
    /\ resp' = DownloadResponse(pk, file_path)
    /\ UNCHANGED <<userVars, classVars, students, grades, feeVars, attVars,
                   taskVars, reportVars>>

\* ------------------------------------------------------ AdminUserUpdateView
\* POST {user_id, username}: the serializer refuses a taken username (400);
\* then User.objects.get(pk=user_id), whose User.DoesNotExist nothing
\* catches (500); then the username is set when the request has one
AdminUserUpdate(user_id, username) ==
    /\ UNCHANGED <<profiles, teachers, classVars, students, grades, feeVars,
                   attVars, taskVars, reportVars>>
    /\ IF username # ABSENT /\ \E u \in DOMAIN users :
                                  users[u].username = username
       THEN /\ resp' = [op |-> "admin_update_user", status |-> 400,
                        user_id |-> user_id]
            /\ UNCHANGED users
       ELSE IF user_id \notin DOMAIN users
       THEN /\ resp' = [op |-> "admin_update_user", status |-> 500,
                        user_id |-> user_id]
            /\ UNCHANGED users
       ELSE /\ users' = [users EXCEPT ![user_id].username =
                           IF username = ABSENT THEN @ ELSE username]
            /\ resp' = [op |-> "admin_update_user", status |-> 200,
                        user_id |-> user_id]

\* --------------------------------------------------- TimetableViewSet.by_class
\* GET /timetable/class/{class_id}/: SchoolClass.DoesNotExist is caught (404)
TimetableByClass(class_id) ==
    /\ resp' = IF class_id \notin classes
               THEN [op |-> "timetable_by_class", status |-> 404,
                     class_id |-> class_id]
               ELSE [op |-> "timetable_by_class", status |-> 200,
                     class_id |-> class_id,
                     entries |-> {t \in timetable :
                                    t.school_class = class_id}]
    /\ UNCHANGED <<userVars, classVars, students, grades, feeVars, attVars,
                   taskVars, reportVars>>

\* ------------------------------------------------------------- ClassViewSet
\* Student.school_class is on_delete=SET_NULL: the students of a deleted class
\* stay, detached
StudentsAfterClassDeleteCascade(c) ==
    [s \in {x \in DOMAIN students : students[x].school_class # c} |->
        students[s]]
StudentsAfterClassDelete(c) ==
    [s \in DOMAIN students |->
        IF students[s].school_class = c
        THEN [students[s] EXCEPT !.school_class = NULL]
        ELSE students[s]]

\* DELETE /classes/{id}/: ModelViewSet.destroy.  Timetable.school_class and
\* Assignment.school_class are on_delete=CASCADE, and Grade.assignment
\* cascades from the deleted assignments.
DeleteClass(c) ==
    IF c \notin classes
    THEN /\ resp' = [op |-> "delete_class", status |-> 404]
         /\ UNCHANGED <<userVars, classVars, students, grades, feeVars,
                        attVars, taskVars, reportVars>>
    ELSE /\ classes' = classes \ {c}
         /\ students' = StudentsAfterClassDelete(c)
         /\ timetable' = {t \in timetable : t.school_class # c}
         /\ assignments' = {a \in assignments : a.school_class # c}
         /\ grades' = {g \in grades :
                          \E a \in assignments :
                             a.id = g.assignment /\ a.school_class # c}
         /\ resp' = [op |-> "delete_class", status |-> 204, class_id |-> c,
                     members |-> ClassStudents(c)]
         /\ UNCHANGED <<userVars, feeVars, attVars, taskVars, reportVars>>

\* --------------------------------------------------------------- TaskViewSet
\* a queryset that leaves the caller out of account
TaskQuerysetAll(caller) == tasks

\* get_queryset(): the tasks the caller may see and act on
TaskQueryset(caller) ==
    IF users[caller].role = "teacher"
    THEN IF caller \in DOMAIN teachers
         THEN {t \in tasks : t.teacher = caller}
         ELSE {}
    ELSE IF users[caller].role = "principal" THEN tasks ELSE {}

TaskUnchanged ==
    UNCHANGED <<userVars, classVars, students, grades, feeVars, attVars,
                reportVars>>

\* validated_data['teacher'] = Teacher.objects.get(user=request.user): the
\* serializer's teacher field is read-only, a "teacher" of the request body
\* never reaches validated_data
TaskTeacherFromBody(caller, body_teacher) ==
    IF body_teacher # NULL THEN body_teacher ELSE caller
TaskTeacher(caller, body_teacher) == caller

\* the title of the tasks, and the one a PATCH gives
TaskTitle == "Grade papers"
NewTaskTitle == "Grade essays"

\* POST /tasks/ {status, teacher, ...}: perform_create and
\* TaskSerializer.create look the caller's Teacher up, whatever the caller's
\* role, and answer 400 (ValidationError) when there is none; completed_at
\* is read-only and stays null
CreateTask(caller, st, body_teacher) ==
    /\ nextTaskId <= MaxTaskId
    /\ TaskUnchanged
    /\ UNCHANGED now
    /\ IF caller \notin DOMAIN teachers
       THEN /\ resp' = [op |-> "create_task", status |-> 400,
                        caller |-> caller, body_teacher |-> body_teacher]
            /\ UNCHANGED <<tasks, nextTaskId>>
       ELSE /\ tasks' = tasks \cup
                          {[id |-> nextTaskId,
                            teacher |-> TaskTeacher(caller, body_teacher),
                            title |-> TaskTitle, status |-> st,
                            completed_at |-> NULL]}
            /\ nextTaskId' = nextTaskId + 1
            /\ resp' = [op |-> "create_task", status |-> 201,
                        task |-> nextTaskId, caller |-> caller,
                        body_teacher |-> body_teacher]

\* DELETE /teachers/{id}/: ModelViewSet.destroy; Task.teacher is
\* on_delete=CASCADE, the User row stays
DeleteTeacher(t) ==
    /\ t \in DOMAIN teachers
    /\ teachers' = [x \in DOMAIN teachers \ {t} |-> teachers[x]]
    /\ tasks' = {k \in tasks : k.teacher # t}
    /\ resp' = [op |-> "delete_teacher", status |-> 204]
    /\ UNCHANGED <<users, profiles, classVars, students, grades, feeVars,
                   attVars, nextTaskId, now, reportVars>>

\* the handlers of one task: get_object() answers 404 outside the queryset;
\* `change` maps each task to the row the handler saves for it
OnTask(caller, id, op, change, body) ==
    /\ TaskUnchanged
    /\ UNCHANGED <<nextTaskId, now>>
    /\ IF \A t \in TaskQueryset(caller) : t.id # id
       THEN /\ resp' = [op |-> op, status |-> 404, task |-> id,
                        caller |-> caller, body |-> body]
            /\ UNCHANGED tasks
       ELSE /\ tasks' = {IF t.id = id THEN change[t] ELSE t : t \in tasks}
            /\ resp' = [op |-> op, status |-> 200, task |-> id,
                        caller |-> caller, body |-> body]

\* a serializer that keeps a completed task completed
PatchedStatusGuarded(t, st) == IF t.status = "completed" THEN t.status ELSE st

\* TaskSerializer: status is a ChoiceField over Task.Status with no
\* validate_status, every value of the enumeration is set as it is
PatchedStatus(t, st) == st

\* PATCH /tasks/{id}/ {"status": st}: completed_at is read-only
UpdateTask(caller, id, st) ==
    /\ id \in 1..MaxTaskId
    /\ OnTask(caller, id, "update_task",
              [t \in tasks |-> [t EXCEPT !.status = PatchedStatus(t, st)]],
              st)

\* GET /tasks/: the caller's queryset
ListTasks(caller) ==
    /\ resp' = [op |-> "list_tasks", status |-> 200, caller |-> caller,
                ids |-> {t.id : t \in TaskQueryset(caller)}]
    /\ TaskUnchanged
    /\ UNCHANGED taskVars

\* GET /tasks/{id}/
RetrieveTask(caller, id) ==
    /\ id \in 1..MaxTaskId
    /\ OnTask(caller, id, "retrieve_task", [t \in tasks |-> t], ABSENT)

\* DELETE /tasks/{id}/
DeleteTask(caller, id) ==
    /\ TaskUnchanged
    /\ UNCHANGED <<nextTaskId, now>>
    /\ IF \A t \in TaskQueryset(caller) : t.id # id
       THEN /\ resp' = [op |-> "delete_task", status |-> 404, task |-> id,
                        caller |-> caller, body |-> ABSENT]
            /\ UNCHANGED tasks
       ELSE /\ tasks' = {t \in tasks : t.id # id}
            /\ resp' = [op |-> "delete_task", status |-> 204, task |-> id,
                        caller |-> caller, body |-> ABSENT]

\* POST /tasks/{id}/mark_completed/: Task.mark_completed
MarkCompleted(caller, id) ==
    /\ id \in 1..MaxTaskId
    /\ OnTask(caller, id, "mark_completed",
              [t \in tasks |-> [t EXCEPT !.status = "completed",
                                         !.completed_at = now]],
              ABSENT)

\* POST /tasks/{id}/mark_in_progress/: Task.mark_in_progress
MarkInProgress(caller, id) ==
    /\ id \in 1..MaxTaskId
    /\ OnTask(caller, id, "mark_in_progress",
              [t \in tasks |-> [t EXCEPT !.status = "in_progress"]],
              ABSENT)

\* time passes between requests
Tick ==
    /\ now < MaxClock
    /\ now' = now + 1
    /\ resp' = NoResp
    /\ TaskUnchanged
    /\ UNCHANGED <<tasks, nextTaskId>>

\* The same handlers at the grain of their statements, for requests of two
\* clients on one task: get_object() reads the row, the handler changes
\* fields of the instance in memory, and save() writes every column of it.
\* {"title": t, "status": st} of a PATCH; ABSENT is a key that is not there
TitleOnly == [title |-> NewTaskTitle, status |-> ABSENT]
NoBody == [title |-> ABSENT, status |-> ABSENT]

TaskRaceUnchanged ==
    UNCHANGED <<userVars, classVars, students, grades, feeVars, attVars,
                nextTaskId, now, notifications, nextNotificationId, sr,
                summaryCache, fileVars, seedVars, listCache>>

\* task = self.get_object(): 404 outside the caller's queryset
TaskLoad(c, caller, id, op, data) ==
    /\ taskReq[c].pc \in {"idle", "done"}
    /\ TaskRaceUnchanged
    /\ UNCHANGED tasks
    /\ IF \A t \in TaskQueryset(caller) : t.id # id
       THEN /\ resp' = [op |-> op, status |-> 404, client |-> c]
            /\ taskReq' = [taskReq EXCEPT ![c] =
                              [pc |-> "done", op |-> op, status |-> 404,
                               task |-> id, data |-> data]]
       ELSE /\ taskReq' = [taskReq EXCEPT ![c] =
                              [pc |-> "loaded", op |-> op, data |-> data,
                               obj |-> CHOOSE t \in TaskQueryset(caller) :
                                           t.id = id]]
            /\ UNCHANGED resp

\* Task.mark_completed sets status and completed_at = timezone.now();
\* the serializer of a PATCH sets the fields the request has
TaskSetFields(c) ==
    /\ taskReq[c].pc = "loaded"
    /\ TaskRaceUnchanged
    /\ UNCHANGED <<tasks, resp>>
    /\ LET r == taskReq[c]
           obj == IF r.op = "mark_completed"
                  THEN [r.obj EXCEPT !.status = "completed",
                                     !.completed_at = now]
                  ELSE [r.obj EXCEPT !.title = Get(r.data.title, @),
                                     !.status = Get(r.data.status, @)]
       IN  taskReq' = [taskReq EXCEPT ![c] = [r EXCEPT !.pc = "dirty",
                                                       !.obj = obj]]

\* self.save(): no update_fields, so the row gets every field of the
\* instance, those the handler did not touch with the values it read
TaskSave(c) ==
    /\ taskReq[c].pc = "dirty"
    /\ TaskRaceUnchanged
    /\ LET r == taskReq[c]
       IN  /\ tasks' = {t \in tasks : t.id # r.obj.id} \cup {r.obj}
           /\ resp' = [op |-> r.op, status |-> 200, task |-> r.obj.id,
                       client |-> c, saved |-> r.obj]
           /\ taskReq' = [taskReq EXCEPT ![c] =
                             [pc |-> "done", op |-> r.op, status |-> 200,
                              task |-> r.obj.id, data |-> r.data]]

\* ------------------------------------- StudentSerializer, TeacherSerializer
\* serializer.is_valid(): UserSerializer's EmailField refuses a malformed
\* address
RequestValidAlways(data) == TRUE
RequestValid(data) == data.email # InvalidEmail


\* user.email = user_data.get('email', user.email), first_name alike
\* (last_name is assigned as first_name is); user.save()
UserAfterUpdate(user, data) ==
    [user EXCEPT !.email = Get(data.email, user.email),
                 !.first_name = Get(data.first_name, user.first_name)]

\* UserProfile.objects.create(user=u): an AutoField pk, every other column
\* at its default (null)
NewProfile(rows, u) ==
    [id |-> Cardinality(rows) + 1, user |-> u, phone |-> NONE,
     address |-> NONE]

\* UserProfile.objects.get_or_create(user=u): the table with u's profile in it
CreateAlways(rows, u) == rows \cup {NewProfile(rows, u)}
GetOrCreate(rows, u) ==
    IF \E r \in rows : r.user = u THEN rows
    ELSE rows \cup {NewProfile(rows, u)}

\* for field, value in profile_data.items(): if value is not None:
\*     setattr(profile, field, value)
SetAttrAlways(old, value) == IF value = ABSENT THEN old ELSE value
SetAttrNotNone(old, value) == IF value \in {ABSENT, NONE} THEN old ELSE value

\* profile_data = user_data.get('profile', {}); a non-empty dict gets or
\* creates the profile, sets the values that are not None and saves it
ProfilesAfterUpdate(u, data) ==
    IF data.has_profile /\ (data.phone # ABSENT \/ data.address # ABSENT)
    THEN {IF r.user = u
          THEN [r EXCEPT !.phone = SetAttrNotNone(@, data.phone),
                         !.address = SetAttrNotNone(@, data.address)]
          ELSE r : r \in GetOrCreate(profiles, u)}
    ELSE profiles

\* the object-level check of the two viewsets: they declare no
\* permission_classes and override no check_object_permissions, so every
\* authenticated caller may update every record
MayUpdate(caller, target) == TRUE

UpdateResp(op, code, caller, target, data) ==
    [op |-> op, status |-> code, caller |-> caller, target |-> target,
     data |-> data]

\* PUT/PATCH /students/{id}/ by the authenticated user `caller`
UpdateStudent(caller, id, data) ==
    /\ UNCHANGED <<teachers, classVars, students, grades, feeVars, attVars,
                   taskVars, reportVars>>
    /\ IF id \notin DOMAIN students
       THEN /\ resp' = UpdateResp("update_student", 404, caller, id,
                                 data)
            /\ UNCHANGED <<users, profiles>>
       ELSE IF ~MayUpdate(caller, id)
       THEN /\ resp' = UpdateResp("update_student", 403, caller, id,
                                 data)
            /\ UNCHANGED <<users, profiles>>
       ELSE IF ~RequestValid(data)
       THEN /\ resp' = UpdateResp("update_student", 400, caller, id,
                                 data)
            /\ UNCHANGED <<users, profiles>>
       ELSE /\ users' = [users EXCEPT ![id] = UserAfterUpdate(@, data)]
            /\ profiles' = ProfilesAfterUpdate(id, data)
            /\ resp' = UpdateResp("update_student", 200, caller, id,
                                 data)

\* PUT/PATCH /teachers/{id}/ by the authenticated user `caller`
UpdateTeacher(caller, id, data) ==
    /\ UNCHANGED <<classVars, students, grades, feeVars, attVars, taskVars,
                   reportVars>>
    /\ IF id \notin DOMAIN teachers
       THEN /\ resp' = UpdateResp("update_teacher", 404, caller, id,
                                 data)
            /\ UNCHANGED <<users, profiles, teachers>>
       ELSE IF ~MayUpdate(caller, id)
       THEN /\ resp' = UpdateResp("update_teacher", 403, caller, id,
                                 data)
            /\ UNCHANGED <<users, profiles, teachers>>
       ELSE IF ~RequestValid(data)
       THEN /\ resp' = UpdateResp("update_teacher", 400, caller, id,
                                 data)
            /\ UNCHANGED <<users, profiles, teachers>>
       ELSE /\ users' = [users EXCEPT ![id] = UserAfterUpdate(@, data)]
            /\ profiles' = ProfilesAfterUpdate(id, data)
            /\ teachers' = [teachers EXCEPT ![id].qualification =
                               Get(data.qualification, @)]
            /\ resp' = UpdateResp("update_teacher", 200, caller, id,
                                 data)

\* ------------------------------------- StudentSerializer.create, seed scripts
\* usernames a POST /students/ may carry, and teachers_data of
\* populate_sample_data (two of its four entries)
ApiUsernames == {"john_doe", "mary"}
SampleTeachers == <<"john_doe", "jane_smith">>

\* the AutoField pk of the next User row (no User is ever deleted here)
NextUserId(us) == Cardinality(DOMAIN us) + 1

\* POST /students/ {"user": {"username": n}}: UserSerializer's
\* UniqueValidator refuses a taken username; create() makes a User of role
\* STUDENT and its Student row in one transaction
CreateStudent(n) ==
    /\ Cardinality(DOMAIN users) < PrincipalUser + MaxNewUsers
    /\ UNCHANGED <<profiles, teachers, classVars, grades, feeVars, attVars,
                   taskVars, reportVars>>
    /\ IF \E u \in DOMAIN users : users[u].username = n
       THEN /\ resp' = [op |-> "create_student", status |-> 400]
            /\ UNCHANGED <<users, students>>
       ELSE LET id == NextUserId(users)
            IN /\ users' = [u \in DOMAIN users \cup {id} |->
                              IF u = id
                              THEN [role |-> "student", email |-> "",
                                    first_name |-> "", username |-> n]
                              ELSE users[u]]
               /\ students' = [s \in DOMAIN students \cup {id} |->
                                 IF s = id THEN [school_class |-> NULL]
                                 ELSE students[s]]
               /\ resp' = [op |-> "create_student", status |-> 201]

\* User.objects.get_or_create(username=n, defaults={..., 'role': 'teacher'}):
\* the id of the user of that name after the call, and the table
UserIdByName(us, n) ==
    IF \E u \in DOMAIN us : us[u].username = n
    THEN CHOOSE u \in DOMAIN us : us[u].username = n
    ELSE NextUserId(us)
UsersGetOrCreate(us, n) ==
    IF \E u \in DOMAIN us : us[u].username = n THEN us
    ELSE [u \in DOMAIN us \cup {NextUserId(us)} |->
             IF u \in DOMAIN us THEN us[u]
             ELSE [role |-> "teacher", email |-> "", first_name |-> "John",
                   username |-> n]]

\* Teacher.objects.get_or_create(user=user, defaults={})
TeachersGetOrCreate(ts, u) ==
    [t \in DOMAIN ts \cup {u} |->
        IF t \in DOMAIN ts THEN ts[t] ELSE [qualification |-> ""]]

RECURSIVE SampleTeachersLoop(_, _, _)
\* for teacher_data in teachers_data: the two tables after the loop
SampleTeachersLoop(names, us, ts) ==
    IF names = <<>> THEN [users |-> us, teachers |-> ts]
    ELSE SampleTeachersLoop(Tail(names), UsersGetOrCreate(us, Head(names)),
                            TeachersGetOrCreate(ts,
                                                UserIdByName(us, Head(names))))

\* populate_sample_data(), its "Create sample teachers" part
PopulateSampleTeachers ==
    /\ LET after == SampleTeachersLoop(SampleTeachers, users, teachers)
       IN /\ users' = after.users
          /\ teachers' = after.teachers
    /\ resp' = [op |-> "populate_sample_data", status |-> 0]
    /\ UNCHANGED <<profiles, classVars, students, grades, feeVars, attVars,
                   taskVars, reportVars>>

\* --------------------------------- StudentViewSet.list, TeacherViewSet.list
\* what the list serializes: every row with the fields of its user
StudentList ==
    [s \in DOMAIN students |->
        [school_class |-> students[s].school_class,
         email |-> users[s].email, username |-> users[s].username]]
TeacherList ==
    [t \in DOMAIN teachers |->
        [qualification |-> teachers[t].qualification,
         email |-> users[t].email, username |-> users[t].username]]
ListNow(l) == IF l = "students" THEN StudentList ELSE TeacherList

\* GET /students/ or GET /teachers/ under cache_page(300): a response in
\* the cache is returned as it is; otherwise the view runs and its
\* response is stored
ListRecords(l) ==
    /\ UNCHANGED <<userVars, classVars, students, grades, feeVars, attVars,
                   taskVars, notifications, nextNotificationId, sr,
                   summaryCache, fileVars, seedVars, taskReq>>
    /\ IF listCache[l].valid
       THEN /\ resp' = [op |-> "list", list |-> l, status |-> 200,
                        from_cache |-> TRUE, data |-> listCache[l].data]
            /\ UNCHANGED listCache
       ELSE /\ resp' = [op |-> "list", list |-> l, status |-> 200,
                        from_cache |-> FALSE, data |-> ListNow(l)]
            /\ listCache' = [listCache EXCEPT ![l] =
                                [valid |-> TRUE, data |-> ListNow(l)]]

\* the 300 seconds of an entry are over
ListCacheExpire(l) ==
    /\ listCache[l].valid
    /\ listCache' = [listCache EXCEPT ![l] = NoCache]
    /\ resp' = NoResp
    /\ UNCHANGED <<userVars, classVars, students, grades, feeVars, attVars,
                   taskVars, notifications, nextNotificationId, sr,
                   summaryCache, fileVars, seedVars, taskReq>>

\* ------------------------- seed_data, create_demo_data, populate_timetable
\* The Timetable statements of the three scripts, with the SchoolClass and
\* Period rows they read.  A SchoolClass row is known by its unique name.
\* The rows the scripts put in the other tables are left out: no Timetable
\* statement reads them.
Take(seq, n) == SubSeq(seq, 1, n)
Range(seq) == {seq[i] : i \in DOMAIN seq}

\* the first names of the classes each script looks up or creates
SeedClassNames == <<"Grade 1", "Grade 2", "Grade 3">>
PopulateClassNames == <<"Class 10A", "Class 10B", "Class 9A">>
DemoClassNames == <<"Nursery", "LKG", "UKG">>
\* the first two days of models.py Timetable.Day
Days == <<"MON", "TUE">>
\* the first two periods_data of seed_data and of create_demo_data, and the
\* first two time_slots of populate_timetable
SeedPeriodsData ==
    <<[start_time |-> "08:00", end_time |-> "08:50"],
      [start_time |-> "09:00", end_time |-> "09:50"]>>
DemoPeriodsData ==
    <<[start_time |-> "08:00", end_time |-> "08:45"],
      [start_time |-> "08:45", end_time |-> "09:30"]>>
TimeSlots ==
    <<[start_time |-> "08:00", end_time |-> "09:00"],
      [start_time |-> "09:00", end_time |-> "10:00"]>>
PeriodNumbers == DOMAIN SeedPeriodsData

\* Period.objects.get_or_create(period_number=n, defaults=data[n]), for
\* every n
PeriodsGetOrCreate(rows, data) ==
    [n \in DOMAIN rows \cup DOMAIN data |->
        IF n \in DOMAIN rows THEN rows[n] ELSE data[n]]

\* random.sample: for every class and day, the periods of that day
Samples(names) ==
    [Range(names) \X Range(Days) -> (SUBSET PeriodNumbers) \ {{}}]
AllPeriods(names) ==
    [k \in Range(names) \X Range(Days) |-> PeriodNumbers]

\* the slots a script goes through, in the order of its loops: for every
\* class, for every day, for every period of the sample
SlotKeys(names, slotOf, sample) ==
    LET nd == Len(Days)
        np == Len(slotOf)
        all == [i \in 1..(Len(names) * nd * np) |->
                  LET ci == ((i - 1) \div (nd * np)) + 1
                      di == (((i - 1) \div np) % nd) + 1
                      pi == ((i - 1) % np) + 1
                  IN  [school_class |-> names[ci],
                       day_of_week |-> Days[di],
                       n |-> pi,
                       start_time |-> slotOf[pi].start_time,
                       end_time |-> slotOf[pi].end_time]]
    IN  SelectSeq(all,
                  LAMBDA k : k.n \in sample[<<k.school_class, k.day_of_week>>])

SlotOf(k) ==
    [school_class |-> k.school_class, day_of_week |-> k.day_of_week,
     start_time |-> k.start_time, end_time |-> k.end_time]

\* the rows get_or_create looks at, were every lookup to find none
SlotMatchesNone(rows, k, with_end) == {}

\* the rows that match the lookup of get_or_create: class, day and start
\* time, and in seed_data and create_demo_data the end time too
SlotMatches(rows, k, with_end) ==
    {t \in rows : /\ t.school_class = k.school_class
                  /\ t.day_of_week = k.day_of_week
                  /\ t.start_time = k.start_time
                  /\ with_end => t.end_time = k.end_time}

\* Timetable.objects.get_or_create for every slot in turn: no match creates
\* the row, one match is kept, more raise MultipleObjectsReturned
RECURSIVE SlotLoop(_, _, _)
SlotLoop(acc, keys, with_end) ==
    IF keys = <<>> \/ acc.failed THEN acc
    ELSE LET k == Head(keys)
             found == Cardinality(SlotMatches(acc.rows, k, with_end))
             row == [id |-> acc.nid, school_class |-> k.school_class,
                     day_of_week |-> k.day_of_week,
                     start_time |-> k.start_time, end_time |-> k.end_time]
         IN  SlotLoop(IF found = 0
                      THEN [acc EXCEPT !.rows = @ \cup {row}, !.nid = @ + 1]
                      ELSE IF found = 1 THEN acc
                      ELSE [acc EXCEPT !.failed = TRUE],
                      Tail(keys), with_end)

SlotRun(rows, keys, with_end) ==
    SlotLoop([rows |-> rows, nid |-> nextTimetableId, failed |-> FALSE],
             keys, with_end)

ScriptResp(op, keys, run) ==
    [op |-> op, status |-> IF run.failed THEN 1 ELSE 0,
     slots |-> {SlotOf(keys[i]) : i \in DOMAIN keys},
     created |-> run.nid - nextTimetableId]

\* seed_data: one transaction that empties the tables, ensures the periods
\* and its classes, and fills the timetable of each class from a sample of
\* the Period rows
SeedData(sample) ==
    LET names == Take(SeedClassNames, NumClasses)
        ps == PeriodsGetOrCreate(periods, SeedPeriodsData)
        keys == SlotKeys(names, ps, sample)
        run == SlotRun({}, keys, TRUE)
    IN  /\ run.nid <= MaxTimetableId + 1
        /\ resp' = ScriptResp("seed_data", keys, run)
        /\ IF run.failed
           THEN UNCHANGED <<classes, timetable, seedVars>>
           ELSE /\ periods' = ps
                /\ classes' = Range(names)
                /\ timetable' = run.rows
                /\ nextTimetableId' = run.nid
        /\ UNCHANGED <<userVars, students, assignments, grades, feeVars,
                       attVars, taskVars, notifications, nextNotificationId,
                       sr, summaryCache, fileVars, clientVars>>

\* populate_sample_data(), its classes and timetable entries: every
\* statement commits on its own, and the lookup leaves the end time out
PopulateTimetable(sample) ==
    LET names == Take(PopulateClassNames, NumClasses)
        keys == SlotKeys(names, TimeSlots, sample)
        run == SlotRun(timetable, keys, FALSE)
    IN  /\ run.nid <= MaxTimetableId + 1
        /\ resp' = ScriptResp("populate_timetable", keys, run)
        /\ classes' = classes \cup Range(names)
        /\ timetable' = run.rows
        /\ nextTimetableId' = run.nid
        /\ UNCHANGED <<userVars, students, assignments, grades, feeVars,
                       attVars, taskVars, notifications, nextNotificationId,
                       sr, summaryCache, fileVars, clientVars, periods>>

\* create_demo_data: ensures its classes and the periods, and an entry for
\* every class, day and period; every statement commits on its own
CreateDemoData ==
    LET names == Take(DemoClassNames, NumClasses)
        ps == PeriodsGetOrCreate(periods, DemoPeriodsData)
        keys == SlotKeys(names, ps, AllPeriods(names))
        run == SlotRun(timetable, keys, TRUE)
    IN  /\ run.nid <= MaxTimetableId + 1
        /\ resp' = ScriptResp("create_demo_data", keys, run)
        /\ periods' = ps
        /\ classes' = classes \cup Range(names)
        /\ timetable' = run.rows
        /\ nextTimetableId' = run.nid
        /\ UNCHANGED <<userVars, students, assignments, grades, feeVars,
                       attVars, taskVars, notifications, nextNotificationId,
                       sr, summaryCache, fileVars, clientVars>>

\* ------------------------------------------------------------ specification
\* the tables a specification does not draw: users of every role, each
\* teacher user but the last with a Teacher row, no profile, and no other
\* row
InitUsers ==
    /\ users = SeededUsers
    /\ profiles = {}
    /\ teachers = [t \in TeacherUsers \ {NumStudents + NumTeachers} |->
                      [qualification |-> "M.Ed"]]
InitNoClassRows == timetable = {} /\ assignments = {} /\ grades = {}
InitNoFees == fees = {} /\ nextFeeId = 1 /\ ccf = CcfIdle
InitNoAttendance ==
    attendance = {} /\ nextAttId = 1 /\ attReq = [c \in Clients |-> AttIdle]
InitNoTasks == tasks = {} /\ nextTaskId = 1 /\ now = 1
InitNoReports ==
    /\ notifications = {}
    /\ nextNotificationId = 1
    /\ sr = SrIdle
    /\ summaryCache = NoCache
    /\ reportDirs = [t \in {} |-> {}]
    /\ gen = [r \in 1..MaxRuns |-> GenIdle]
    /\ periods = [n \in {} |-> {}]
    /\ nextTimetableId = 1
    /\ taskReq = [c \in Clients |-> TaskIdle]
    /\ listCache = [l \in CachedLists |-> NoCache]

InitFees ==
    /\ InitUsers
    /\ classes = ClassIds
    /\ students \in [StudentUsers -> [school_class : ClassIds \cup {NULL}]]
    /\ InitNoClassRows
    /\ InitNoFees
    /\ InitNoAttendance
    /\ InitNoTasks
    /\ InitNoReports
    /\ resp = NoResp

NextFees ==
    \/ \E c \in RequestClassIds, a \in RequestAmounts, d \in DueDates :
          CreateClassFeeBegin(c, a, d)
    \/ CreateClassFeeStep
    \/ \E id \in 1..MaxFeeId : PayFee(id)
    \/ \E id \in 1..MaxFeeId, st \in FeeStatus : UpdateFee(id, st)
    \/ \E s \in StudentUsers : DeleteStudent(s)

SpecFees == InitFees /\ [][NextFees]_vars

\* the last student user is an account without a Student row
InitAttendance ==
    /\ InitUsers
    /\ classes = ClassIds
    /\ students = [s \in StudentUsers \ {NumStudents} |->
                      [school_class |-> NULL]]
    /\ InitNoClassRows
    /\ InitNoFees
    /\ InitNoAttendance
    /\ InitNoTasks
    /\ InitNoReports
    /\ resp = NoResp

NextAttendance ==
    \/ \E c \in Clients, s \in StudentUsers, d \in RequestDates,
          st \in AttStatus : AttendanceCreateValidate(c, s, d, st)
    \/ \E c \in Clients, id \in 1..MaxAttId, d \in RequestDates :
          AttendanceUpdateValidate(c, id, d)
    \/ \E c \in Clients : AttendanceSave(c)
    \/ \E id \in 1..MaxAttId : AttendanceDelete(id)

SpecAttendance == InitAttendance /\ [][NextAttendance]_vars

\* every Fee table over the ids 1..MaxFeeId, of one amount and due date; the
\* reminders run beside fee updates and student deletions
InitReminders ==
    /\ InitUsers
    /\ classes = ClassIds
    /\ students = [s \in StudentUsers |-> [school_class |-> NULL]]
    /\ InitNoClassRows
    /\ \E F \in SUBSET (1..MaxFeeId) :
          \E st \in [F -> FeeStatus], owner \in [F -> StudentUsers] :
             fees = {[id |-> i, student |-> owner[i], amount |-> 1500,
                      due_date |-> "2024-06-01", status |-> st[i]] : i \in F}
    /\ nextFeeId = MaxFeeId + 1
    /\ ccf = CcfIdle
    /\ InitNoAttendance
    /\ InitNoTasks
    /\ InitNoReports
    /\ resp = NoResp

NextReminders ==
    \/ SendRemindersBegin
    \/ SendRemindersStep
    \/ \E id \in 1..MaxFeeId : UpdateFee(id, "paid")
    \/ \E s \in StudentUsers : DeleteStudent(s)

SpecReminders == InitReminders /\ [][NextReminders]_vars

\* every Fee table over the ids 1..MaxFeeId, the students in a class or in
\* none; the summary is read beside fee updates and student deletions
InitSummary ==
    /\ InitUsers
    /\ classes = ClassIds
    /\ students \in [StudentUsers -> [school_class : ClassIds \cup {NULL}]]
    /\ InitNoClassRows
    /\ \E F \in SUBSET (1..MaxFeeId) :
          \E st \in [F -> FeeStatus], owner \in [F -> StudentUsers],
             amount \in [F -> Amounts] :
             fees = {[id |-> i, student |-> owner[i], amount |-> amount[i],
                      due_date |-> "2024-06-01", status |-> st[i]] : i \in F}
    /\ nextFeeId = MaxFeeId + 1
    /\ ccf = CcfIdle
    /\ InitNoAttendance
    /\ InitNoTasks
    /\ InitNoReports
    /\ resp = NoResp

NextSummary ==
    \/ FeesSummary
    \/ SummaryCacheExpire
    \/ \E id \in 1..MaxFeeId, st \in FeeStatus : UpdateFee(id, st)
    \/ \E s \in StudentUsers : DeleteStudent(s)

SpecSummary == InitSummary /\ [][NextSummary]_vars

\* every attendance table of at most MaxAttRows rows that respects
\* unique_together, read by the two views
InitRate ==
    /\ InitUsers
    /\ classes = ClassIds
    /\ students = [s \in StudentUsers |-> [school_class |-> NULL]]
    /\ InitNoClassRows
    /\ InitNoFees
    /\ \E f \in [StudentUsers \X DOMAIN DateSeq -> AttStatus \cup {"none"}] :
          /\ attendance =
                {[id |-> (k[1] - 1) * Len(DateSeq) + k[2], student |-> k[1],
                  date |-> DateSeq[k[2]], status |-> f[k]] :
                   k \in {x \in DOMAIN f : f[x] # "none"}}
          /\ Cardinality(attendance) <= MaxAttRows
    /\ nextAttId = NumStudents * Len(DateSeq) + 1
    /\ attReq = [c \in Clients |-> AttIdle]
    /\ InitNoTasks
    /\ InitNoReports
    /\ resp = NoResp

NextRate ==
    \/ \E u \in UserIds : GetDashboard(u)
    \/ \E u \in UserIds, sid \in UserIds : GetStudentDetail(u, sid)

SpecRate == InitRate /\ [][NextRate]_vars

InitTasks ==
    /\ InitUsers
    /\ classes = ClassIds
    /\ students = [s \in StudentUsers |-> [school_class |-> NULL]]
    /\ InitNoClassRows
    /\ InitNoFees
    /\ InitNoAttendance
    /\ InitNoTasks
    /\ InitNoReports
    /\ resp = NoResp

NextTasks ==
    \/ \E u \in UserIds, st \in TaskStatus : CreateTask(u, st, NULL)
    \/ \E u \in UserIds, id \in 1..MaxTaskId, st \in TaskStatus :
          UpdateTask(u, id, st)
    \/ \E u \in UserIds, id \in 1..MaxTaskId : MarkCompleted(u, id)
    \/ \E u \in UserIds, id \in 1..MaxTaskId : MarkInProgress(u, id)
    \/ Tick

SpecTasks == InitTasks /\ [][NextTasks]_vars

\* every teacher has a Teacher row and one task
InitTaskScope ==
    /\ users = SeededUsers
    /\ profiles = {}
    /\ teachers = [t \in TeacherUsers |-> [qualification |-> "M.Ed"]]
    /\ classes = ClassIds
    /\ students = [s \in StudentUsers |-> [school_class |-> NULL]]
    /\ InitNoClassRows
    /\ InitNoFees
    /\ InitNoAttendance
    /\ tasks = {[id |-> i, teacher |-> NumStudents + i, title |-> TaskTitle,
                 status |-> "pending", completed_at |-> NULL] :
                   i \in 1..NumTeachers}
    /\ nextTaskId = NumTeachers + 1
    /\ now = 1
    /\ InitNoReports
    /\ resp = NoResp

\* the teachers set every status on every task, and mark tasks completed
NextTaskStatus ==
    \/ \E u \in TeacherUsers, id \in 1..NumTeachers, st \in TaskStatus :
          UpdateTask(u, id, st)
    \/ \E u \in TeacherUsers, id \in 1..NumTeachers : MarkCompleted(u, id)

SpecTaskStatus == InitTaskScope /\ [][NextTaskStatus]_vars

\* every user lists the tasks and reads, cancels, marks and deletes each of
\* them
NextTaskScope ==
    \/ \E u \in UserIds : ListTasks(u)
    \/ \E u \in UserIds, id \in 1..NumTeachers : RetrieveTask(u, id)
    \/ \E u \in UserIds, id \in 1..NumTeachers :
          UpdateTask(u, id, "cancelled")
    \/ \E u \in UserIds, id \in 1..NumTeachers : DeleteTask(u, id)
    \/ \E u \in UserIds, id \in 1..NumTeachers : MarkCompleted(u, id)
    \/ \E u \in UserIds, id \in 1..NumTeachers : MarkInProgress(u, id)

SpecTaskScope == InitTaskScope /\ [][NextTaskScope]_vars

\* two clients act on the one task of the first teacher, as that teacher or
\* as the principal, and on the one fee
TaskOwner == NumStudents + 1
InitTaskRace ==
    /\ InitUsers
    /\ classes = ClassIds
    /\ students = [s \in StudentUsers |-> [school_class |-> NULL]]
    /\ InitNoClassRows
    /\ fees = {[id |-> 1, student |-> 1, amount |-> 1500,
                due_date |-> "2024-06-01", status |-> "unpaid"]}
    /\ nextFeeId = 2
    /\ ccf = CcfIdle
    /\ InitNoAttendance
    /\ \E st \in {"pending", "in_progress"} :
          tasks = {[id |-> 1, teacher |-> TaskOwner, title |-> TaskTitle,
                    status |-> st, completed_at |-> NULL]}
    /\ nextTaskId = 2
    /\ now = 1
    /\ InitNoReports
    /\ resp = NoResp

NextTaskRace ==
    \/ \E c \in Clients, u \in {TaskOwner, PrincipalUser} :
          TaskLoad(c, u, 1, "mark_completed", NoBody)
    \/ \E c \in Clients, u \in {TaskOwner, PrincipalUser} :
          TaskLoad(c, u, 1, "update_task", TitleOnly)
    \/ \E c \in Clients : TaskSetFields(c)
    \/ \E c \in Clients : TaskSave(c)
    \/ PayFee(1)
    \/ Tick

SpecTaskRace == InitTaskRace /\ [][NextTaskRace]_vars

\* the creation of tasks, with or without a teacher in the request body,
\* beside the deletion of teachers and the update of a task's status
NextTaskOwnership ==
    \/ \E u \in UserIds, st \in {"pending", "in_progress"},
          bt \in TeacherUsers \cup {NULL} : CreateTask(u, st, bt)
    \/ \E t \in TeacherUsers : DeleteTeacher(t)
    \/ \E u \in UserIds, id \in 1..MaxTaskId :
          UpdateTask(u, id, "cancelled")

SpecTaskOwnership == InitTasks /\ [][NextTaskOwnership]_vars

\* every class has or has not a timetable entry and an assignment, every
\* assignment is graded or not for each student; one class more than in the
\* other specifications exists
SchoolClassIds == 1..(NumClasses + 1)
InitClasses ==
    /\ InitUsers
    /\ classes = SchoolClassIds
    /\ students \in [StudentUsers ->
                       [school_class : SchoolClassIds \cup {NULL}]]
    /\ \E T \in SUBSET SchoolClassIds :
          timetable = {[id |-> c, school_class |-> c] : c \in T}
    /\ assignments = {[id |-> 1, school_class |-> 1]}
    /\ \E G \in SUBSET StudentUsers :
          grades = {[id |-> s, student |-> s, assignment |-> 1] : s \in G}
    /\ InitNoFees
    /\ InitNoAttendance
    /\ InitNoTasks
    /\ InitNoReports
    /\ resp = NoResp

NextClasses ==
    \/ \E c \in 1..(NumClasses + 2) : DeleteClass(c)
    \/ \E s \in StudentUsers : DeleteStudent(s)

SpecClasses == InitClasses /\ [][NextClasses]_vars

\* the last student user is an account without a Student row
InitProfiles ==
    /\ InitUsers
    /\ classes = ClassIds
    /\ students = [s \in StudentUsers \ {NumStudents} |->
                      [school_class |-> NULL]]
    /\ InitNoClassRows
    /\ InitNoFees
    /\ InitNoAttendance
    /\ InitNoTasks
    /\ InitNoReports
    /\ resp = NoResp

NextProfiles ==
    \/ \E u \in UserIds, id \in UserIds,
          data \in EmailRequests(StudentUpdateRequests) :
          UpdateStudent(u, id, data)
    \/ \E u \in UserIds, id \in UserIds,
          data \in EmailRequests(UpdateRequests) :
          UpdateTeacher(u, id, data)

SpecProfiles == InitProfiles /\ [][NextProfiles]_vars

\* the first student user and the first teacher user
RecordOwners == {1, NumStudents + 1}

\* one Student or Teacher record, whose user has no profile yet, beside the
\* principal, who has a profile and no record
InitNestedUpdate ==
    /\ users = SeededUsers
    /\ profiles = {[id |-> 1, user |-> PrincipalUser, phone |-> "5550001111",
                    address |-> "Office"]}
    /\ \E t \in RecordOwners :
          /\ students = [s \in {t} \cap StudentUsers |->
                            [school_class |-> NULL]]
          /\ teachers = [x \in {t} \cap TeacherUsers |->
                            [qualification |-> "M.Ed"]]
    /\ classes = ClassIds
    /\ InitNoClassRows
    /\ InitNoFees
    /\ InitNoAttendance
    /\ InitNoTasks
    /\ InitNoReports
    /\ resp = NoResp

\* the API operations that write User, Student and Teacher rows, and the
\* teachers part of the populate script
NextRoles ==
    \/ \E n \in ApiUsernames : CreateStudent(n)
    \/ PopulateSampleTeachers
    \/ \E id \in UserIds, data \in EmailRequests(StudentUpdateRequests) :
          UpdateStudent(id, id, data)
    \/ \E id \in UserIds, data \in EmailRequests(UpdateRequests) :
          UpdateTeacher(id, id, data)
    \/ \E s \in UserIds : DeleteStudent(s)
    \/ \E t \in UserIds : DeleteTeacher(t)

SpecRoles == InitProfiles /\ [][NextRoles]_vars

\* the lists are read beside the creation, update and deletion of students
\* and the update and deletion of teachers
NextLists ==
    \/ \E l \in CachedLists : ListRecords(l)
    \/ \E l \in CachedLists : ListCacheExpire(l)
    \/ CreateStudent("mary")
    \/ \E id \in UserIds, data \in EmailRequests(StudentUpdateRequests) :
          UpdateStudent(id, id, data)
    \/ \E id \in UserIds, data \in EmailRequests(UpdateRequests) :
          UpdateTeacher(id, id, data)
    \/ \E s \in UserIds : DeleteStudent(s)
    \/ \E t \in UserIds : DeleteTeacher(t)

SpecLists == InitProfiles /\ [][NextLists]_vars

\* runs of the three seeding scripts, one after the other, on a database
\* without classes
InitSeeding ==
    /\ InitUsers
    /\ classes = {}
    /\ students = [s \in StudentUsers |-> [school_class |-> NULL]]
    /\ InitNoClassRows
    /\ InitNoFees
    /\ InitNoAttendance
    /\ InitNoTasks
    /\ InitNoReports
    /\ resp = NoResp

NextSeeding ==
    \/ \E sample \in Samples(Take(SeedClassNames, NumClasses)) :
          SeedData(sample)
    \/ \E sample \in Samples(Take(PopulateClassNames, NumClasses)) :
          PopulateTimetable(sample)
    \/ CreateDemoData

SpecSeeding == InitSeeding /\ [][NextSeeding]_vars

\* every student has or has not an attendance row, a grade and a fee
InitDetail ==
    /\ InitUsers
    /\ classes = ClassIds
    /\ students = [s \in StudentUsers |-> [school_class |-> NULL]]
    /\ timetable = {}
    /\ assignments = {[id |-> 1, school_class |-> 1]}
    /\ \E G \in SUBSET StudentUsers :
          grades = {[id |-> s, student |-> s, assignment |-> 1] : s \in G}
    /\ \E F \in SUBSET StudentUsers :
          fees = {[id |-> s, student |-> s, amount |-> 1500,
                   due_date |-> "2024-06-01", status |-> "unpaid"] : s \in F}
    /\ nextFeeId = NumStudents + 1
    /\ ccf = CcfIdle
    /\ \E A \in SUBSET StudentUsers :
          attendance = {[id |-> s, student |-> s, date |-> DateSeq[1],
                         status |-> "present"] : s \in A}
    /\ nextAttId = NumStudents + 1
    /\ attReq = [c \in Clients |-> AttIdle]
    /\ InitNoTasks
    /\ InitNoReports
    /\ resp = NoResp

\* every user asks for the details of every id, while students are deleted
NextDetail ==
    \/ \E u \in UserIds, sid \in 1..(PrincipalUser + 1) :
          GetStudentDetail(u, sid)
    \/ \E s \in StudentUsers : DeleteStudent(s)

SpecDetail == InitDetail /\ [][NextDetail]_vars

\* the path strings of at most MaxPathLen components, with and without a
\* leading "/"
RECURSIVE SeqsUpTo(_, _)
SeqsUpTo(S, n) ==
    IF n = 0 THEN {<<>>}
    ELSE LET shorter == SeqsUpTo(S, n - 1)
         IN  shorter \cup {Append(q, x) : q \in shorter, x \in S}
RequestPaths ==
    {[abs |-> a, segs |-> q] :
        a \in BOOLEAN, q \in SeqsUpTo(PathNames, MaxPathLen)}
        \ {[abs |-> TRUE, segs |-> <<>>]}

\* downloads of a report that exists and of one that does not, with every
\* path of the request
NextDownload ==
    \E pk \in {Report1, Report2}, file_path \in RequestPaths :
        Download(pk, file_path)

SpecDownload == InitFees /\ [][NextDownload]_vars

\* runs of the generate_reports command while the clock advances
NextReportRuns ==
    \/ \E run \in 1..MaxRuns, t \in ReportTypes : GenerateBegin(run, t)
    \/ \E run \in 1..MaxRuns : GenerateStep(run)
    \/ Tick

SpecReportRuns == InitFees /\ [][NextReportRuns]_vars

\* the four operations that take the id of a class, a user or a student,
\* with ids that exist and ids that do not
NextNotFound ==
    \/ \E c \in RequestClassIds, a \in Amounts, d \in DueDates :
          CreateClassFeeBegin(c, a, d)
    \/ CreateClassFeeStep
    \/ \E id \in 1..(PrincipalUser + 1), n \in {"admin2", "1", ABSENT} :
          AdminUserUpdate(id, n)
    \/ \E c \in RequestClassIds : TimetableByClass(c)
    \/ \E u \in UserIds, sid \in 1..(PrincipalUser + 1) :
          GetStudentDetail(u, sid)

SpecNotFound == InitFees /\ [][NextNotFound]_vars

\* the two users update the record of their own id, with every request
NextNestedUpdate ==
    \/ \E id \in RecordOwners, data \in StudentUpdateRequests :
          UpdateStudent(id, id, data)
    \/ \E id \in RecordOwners, data \in UpdateRequests :
          UpdateTeacher(id, id, data)

SpecNestedUpdate == InitNestedUpdate /\ [][NextNestedUpdate]_vars

\* ------------------------------------------------------------- fee claims
\* C1: create_class_fee is all-or-nothing: when the call fails (any response
\* other than 201), no Fee row that this call inserted is left in the table.
C1_AllOrNothing ==
    (resp.op = "create_class_fee" /\ resp.status # 201)
        => \A r \in resp.created : \A f \in fees : f.id # r.id

\* C2: a successful create_class_fee on a class with K members at the time of
\* the call inserts exactly K Fee rows, one per member and none for any other
\* student, each unpaid with the requested amount and due date, reports
\* count = K, and the rows of the members that still exist are in the table.
C2_OneFeePerMember ==
    (resp.op = "create_class_fee" /\ resp.status = 201)
        => /\ resp.count = Cardinality(resp.members)
           /\ Cardinality(resp.created) = resp.count
           /\ {r.student : r \in resp.created} = resp.members
           /\ \A r \in resp.created :
                 /\ r.status = "unpaid"
                 /\ r.amount = resp.amount
                 /\ r.due_date = resp.due_date
                 /\ r.student \in DOMAIN students
                       => \E f \in fees : /\ f.id = r.id
                                          /\ f.student = r.student
                                          /\ f.amount = r.amount
                                          /\ f.due_date = r.due_date

\* a successful call that billed a member while a student outside the class
\* exists
C2_Witness ==
    /\ resp.op = "create_class_fee"
    /\ resp.status = 201
    /\ resp.count >= 1
    /\ \E s \in DOMAIN students : s \notin resp.members

\* C4: the pay action on an existing fee leaves that fee with status paid.
C4_PaySetsPaid ==
    resp.op = "pay" => \A f \in fees : f.id = resp.fee => f.status = "paid"

OutstandingNow == {f \in fees : f.status # "paid"}
PaidNow == {f \in fees : f.status = "paid"}
RECURSIVE TotalOf(_)
TotalOf(rows) ==
    IF rows = {} THEN 0
    ELSE LET f == CHOOSE x \in rows : TRUE IN f.amount + TotalOf(rows \ {f})

\* C13: the pie chart of every fees-summary response describes the Fee table
\* as it is at the time of the call: unpaid_total and unpaid_count are the sum
\* and the number of the unpaid and partial fees, paid_total and paid_count
\* those of the paid fees (0 when there are none), and the two counts add up
\* to the number of fees.
C13_SummaryTotals ==
    resp.op = "fees_summary" =>
        /\ resp.pie_chart.unpaid_total = TotalOf(OutstandingNow)
        /\ resp.pie_chart.unpaid_count = Cardinality(OutstandingNow)
        /\ resp.pie_chart.paid_total = TotalOf(PaidNow)
        /\ resp.pie_chart.paid_count = Cardinality(PaidNow)
        /\ resp.pie_chart.paid_count + resp.pie_chart.unpaid_count
              = Cardinality(fees)

\* C14: the class breakdown of every fees-summary response has exactly one
\* entry for each class that has an outstanding fee, with total_pending the
\* sum of the outstanding fees of the students of that class, every entry that
\* names a class is of such a class, and the entries are in non-increasing
\* order of total_pending.
C14_ClassBreakdown ==
    resp.op = "fees_summary" =>
        LET b == resp.class_breakdown
            ofClass(c) == {f \in OutstandingNow :
                             students[f.student].school_class = c}
        IN /\ \A c \in classes :
                 ofClass(c) # {} =>
                    /\ \E i \in DOMAIN b :
                          /\ b[i].school_class = c
                          /\ b[i].total_pending = TotalOf(ofClass(c))
                    /\ \A i, j \in DOMAIN b :
                          (b[i].school_class = c /\ b[j].school_class = c)
                             => i = j
           /\ \A i \in DOMAIN b :
                 b[i].school_class # NULL => ofClass(b[i].school_class) # {}
           /\ \A i, j \in DOMAIN b :
                 i < j => b[i].total_pending >= b[j].total_pending

\* ------------------------------------------------------ attendance claims
\* C5: there is at most one Attendance row per (student, date) in every
\* reachable state, and an attendance write that is refused (400 by the
\* validator, 500 by the database constraint when two writes for the same pair
\* were validated concurrently) leaves the table as it was.
C5_UniqueAttendance ==
    /\ [](\A r1, r2 \in attendance :
             (r1.student = r2.student /\ r1.date = r2.date) => r1 = r2)
    /\ [][(resp'.op = "attendance" /\ resp'.status \in {400, 500})
              => attendance' = attendance]_vars

\* the loser of two concurrent creations for one pair: refused by the database
\* while the winner's row is in the table
C5_Witness ==
    /\ resp.op = "attendance"
    /\ resp.kind = "create"
    /\ resp.status = 500
    /\ \E r \in attendance : r.student = resp.student /\ r.date = resp.date

\* the attendance rows of a student, and those marked present or late
RecordsOf(s) == {r \in attendance : r.student = s}
PresentOrLateOf(s) == {r \in RecordsOf(s) : r.status # "absent"}
RateReported ==
    resp.op \in {"dashboard", "student_detail"} /\ resp.status = 200

\* C6: every view that reports the attendance rate of a student with no
\* attendance record reports 100.
C6_NoRecordsRate100 ==
    (RateReported /\ RecordsOf(resp.student) = {})
        => resp.rate.num = 100 * resp.rate.den

TaskOf(id) == CHOOSE t \in tasks : t.id = id

\* C8: after mark_completed the task is completed with a completion
\* timestamp; after mark_in_progress the task is in_progress and its
\* completed_at is null, whatever the status it had before.
C8_MarkOperations ==
    /\ (resp.op = "mark_completed" /\ resp.status = 200)
          => /\ TaskOf(resp.task).status = "completed"
             /\ TaskOf(resp.task).completed_at # NULL
    /\ (resp.op = "mark_in_progress" /\ resp.status = 200)
          => /\ TaskOf(resp.task).status = "in_progress"
             /\ TaskOf(resp.task).completed_at = NULL

\* C9: in every reachable state a task's completed_at is non-null exactly
\* when its status is completed.
C9_CompletedAtIffCompleted ==
    \A t \in tasks : (t.completed_at # NULL) <=> (t.status = "completed")

\* C18: every Task is attached to a Teacher record; the task a creation
\* returns is attached to the caller's Teacher record, whatever teacher the
\* request body names; and a creation by a caller without a Teacher record,
\* of whatever role, is answered 400 and creates no Task.
C18_TaskTeacherIsCaller ==
    /\ [](\A t \in tasks : t.teacher \in DOMAIN teachers)
    /\ []((resp.op = "create_task" /\ resp.status = 201) =>
            /\ resp.caller \in DOMAIN teachers
            /\ \E t \in tasks : t.id = resp.task /\ t.teacher = resp.caller)
    /\ [][(resp'.op = "create_task"
           /\ (resp'.caller \notin DOMAIN teachers \/ resp'.status # 201))
             => (resp'.status = 400 /\ tasks' = tasks)]_vars

\* a teacher created a task while the body named another teacher
C18_Witness ==
    /\ resp.op = "create_task"
    /\ resp.status = 201
    /\ resp.body_teacher \in TeacherUsers \ {resp.caller}
    /\ \E t \in tasks : t.id = resp.task /\ t.teacher = resp.caller

\* ----------------------------------------------------------- class claims
\* C10: deleting a SchoolClass deletes no Student: the members of the deleted
\* class stay with a null class reference and every other student keeps its
\* class.
C10_ClassDeleteKeepsStudents ==
    [][\A c \in classes \ classes' :
          /\ DOMAIN students' = DOMAIN students
          /\ \A s \in DOMAIN students :
                students'[s].school_class =
                   IF students[s].school_class = c THEN NULL
                   ELSE students[s].school_class]_vars

\* a class with a member was deleted while another class has a member
C10_Witness ==
    /\ resp.op = "delete_class"
    /\ resp.status = 204
    /\ \E s \in resp.members :
          s \in DOMAIN students /\ students[s].school_class = NULL
    /\ \E s \in DOMAIN students : students[s].school_class \in classes

\* C11: deleting a SchoolClass deletes no Timetable entry: the entries of the
\* deleted class are still in the table afterwards, with a null class
\* reference.
C11_ClassDeleteKeepsTimetable ==
    [][\A c \in classes \ classes' :
          \A t \in timetable :
             \E x \in timetable' :
                /\ x.id = t.id
                /\ x.school_class =
                      IF t.school_class = c THEN NULL ELSE t.school_class]_vars

\* --------------------------------------------------------- profile claims
\* C3: an update of a Student or Teacher record by a student or teacher who
\* does not own the record is answered 403 or 404.
C3_OnlyOwnRecord ==
    (/\ resp.op \in {"update_student", "update_teacher"}
     /\ users[resp.caller].role \in {"student", "teacher"}
     /\ resp.caller # resp.target)
        => resp.status \in {403, 404}

\* a successful update, as the step that wrote it
Updated == resp'.op \in {"update_student", "update_teacher"}
           /\ resp'.status = 200
\* the value of a field of the user's profile; a user without a profile row
\* has every field null
ProfilePhone(rows, u) ==
    IF \E r \in rows : r.user = u
    THEN (CHOOSE r \in rows : r.user = u).phone ELSE NONE
ProfileAddress(rows, u) ==
    IF \E r \in rows : r.user = u
    THEN (CHOOSE r \in rows : r.user = u).address ELSE NONE
\* the request names at least one profile sub-field
NamesProfileField(data) ==
    data.has_profile /\ (data.phone # ABSENT \/ data.address # ABSENT)
\* every row but the target's user, profile and record is as it was
OthersUntouched(t) ==
    /\ \A u \in UserIds \ {t} : users'[u] = users[u]
    /\ {r \in profiles' : r.user # t} = {r \in profiles : r.user # t}
    /\ DOMAIN teachers' = DOMAIN teachers
    /\ \A x \in DOMAIN teachers \ {t} : teachers'[x] = teachers[x]
    /\ students' = students
    /\ users'[t].role = users[t].role

\* C15: a successful update that names profile sub-fields for a user without
\* a UserProfile creates the profile row with the supplied values (a field
\* the request leaves out is null); every user has at most one UserProfile
\* in every reachable state, and an update for a user that has a profile
\* adds no row.
C15_ProfileCreatedOnce ==
    /\ [](\A r1, r2 \in profiles : r1.user = r2.user => r1 = r2)
    /\ [][(Updated /\ NamesProfileField(resp'.data)) =>
             LET t == resp'.target
                 d == resp'.data
             IN IF \E r \in profiles : r.user = t
                THEN Cardinality(profiles') = Cardinality(profiles)
                ELSE /\ Cardinality({r \in profiles' : r.user = t}) = 1
                     /\ Cardinality(profiles') = Cardinality(profiles) + 1
                     /\ ProfilePhone(profiles', t) =
                           (IF d.phone = ABSENT THEN NONE ELSE d.phone)
                     /\ ProfileAddress(profiles', t) =
                           (IF d.address = ABSENT THEN NONE
                            ELSE d.address)]_vars

\* an update created the profile of its target with the supplied phone, beside
\* the profile of another user
C15_Witness ==
    /\ resp.op \in {"update_student", "update_teacher"}
    /\ resp.status = 200
    /\ resp.data.has_profile
    /\ resp.data.phone \in Phones
    /\ \E r \in profiles : r.user = resp.target /\ r.phone = resp.data.phone
    /\ \E r \in profiles : r.user # resp.target

\* the fields of the user and of the record, which both statements of C16
\* treat alike: set when the request names them, else as before
UserAndRecordFieldsSet ==
    LET t == resp'.target
        d == resp'.data
    IN /\ users'[t].email =
             (IF d.email = ABSENT THEN users[t].email ELSE d.email)
       /\ users'[t].first_name =
             (IF d.first_name = ABSENT THEN users[t].first_name
              ELSE d.first_name)
       /\ resp'.op = "update_teacher" =>
             teachers'[t].qualification =
                (IF d.qualification = ABSENT THEN teachers[t].qualification
                 ELSE d.qualification)
       /\ ~NamesProfileField(d) => profiles' = profiles
       /\ OthersUntouched(t)

C17_InvalidChangesNothing ==
    [][(/\ resp'.op \in {"update_student", "update_teacher"}
        /\ \/ resp'.status = 400
           \/ /\ resp'.data.email = InvalidEmail
              /\ resp'.op = "update_student" =>
                    resp'.target \in DOMAIN students
              /\ resp'.op = "update_teacher" =>
                    resp'.target \in DOMAIN teachers)
          => /\ resp'.status = 400
             /\ UNCHANGED <<users, profiles, teachers, students>>]_vars

\* a malformed email refused after an earlier update had changed the user
C17_Witness ==
    /\ resp.op \in {"update_student", "update_teacher"}
    /\ resp.status = 400
    /\ resp.data.email = InvalidEmail
    /\ resp.data.has_profile
    /\ users[resp.target].email = "hacked@test.com"

\* C19: every Student row is backed by a User of role student and every
\* Teacher row by a User of role teacher, in every state the API operations
\* and the seeding script reach, and no step changes the role of a user.
C19_RecordsMatchRole ==
    /\ [](/\ \A s \in DOMAIN students :
                s \in DOMAIN users /\ users[s].role = "student"
          /\ \A t \in DOMAIN teachers :
                t \in DOMAIN users /\ users[t].role = "teacher")
    /\ [][\A u \in DOMAIN users : users'[u].role = users[u].role]_vars

\* the request named a class, a user or a student that does not exist
NamedMissingEntity ==
    \/ /\ resp'.op \in {"create_class_fee", "timetable_by_class"}
       /\ resp'.class_id \notin classes
    \/ resp'.op = "admin_update_user" /\ resp'.user_id \notin DOMAIN users
    \/ resp'.op = "student_detail" /\ resp'.student \notin DOMAIN students

\* C20: a create_class_fee, admin update-user, timetable by-class or student
\* details request that names an entity that does not exist is answered
\* with a client error (4xx) and changes no table.
C20_MissingEntityIsClientError ==
    [][NamedMissingEntity =>
          /\ resp'.status \in 400..499
          /\ UNCHANGED <<users, profiles, teachers, classes, students,
                         timetable, assignments, grades, fees, attendance,
                         tasks, notifications>>]_vars

\* the directories in which some run has finished writing
WrittenDirs == {gen[r].timestamp : r \in {x \in 1..MaxRuns :
                                             gen[x].pc = "done"}}

\* C21: a run writes into the directory named by the timestamp it took, and
\* once a run has finished, no step of any run creates or overwrites a file
\* in its directory.
C21_ReportDirImmutable ==
    /\ [](\A r \in 1..MaxRuns :
            gen[r].pc # "idle" => gen[r].timestamp \in DOMAIN reportDirs)
    /\ [][\A t \in WrittenDirs :
            t \in DOMAIN reportDirs' /\ reportDirs'[t] = reportDirs[t]]_vars

SameSlot(a, b) ==
    /\ a.school_class = b.school_class
    /\ a.day_of_week = b.day_of_week
    /\ a.start_time = b.start_time
    /\ a.end_time = b.end_time

\* C22: after any sequence of runs of the three seeding scripts no two
\* Timetable entries have the same class, day, start and end time, and a
\* run leaves exactly one entry for every slot it goes through, whether
\* the slot had an entry before or not.
C22_SlotIsKey ==
    /\ [](\A a, b \in timetable : SameSlot(a, b) => a = b)
    /\ [][resp'.op \in {"seed_data", "populate_timetable",
                        "create_demo_data"}
            => \A k \in resp'.slots :
                 LET before == {t \in timetable : SameSlot(t, k)}
                     after == {t \in timetable' : SameSlot(t, k)}
                 IN  /\ Cardinality(after) = 1
                     /\ (before # {} /\ resp'.op # "seed_data")
                            => after = before]_vars

\* a script has run again over slots that all had their entry
C22_Witness ==
    /\ resp.op \in {"populate_timetable", "create_demo_data"}
    /\ resp.slots # {}
    /\ resp.created = 0
    /\ Cardinality(timetable) > 1

\* C23: two requests that set the same state on one entity at the same
\* time both succeed: every mark_completed is answered 200 and leaves the
\* task completed with the completed_at that request wrote, and every pay
\* is answered 200 and leaves the fee paid.
C23_DoubleSubmit ==
    /\ [](resp.op = "mark_completed" =>
            /\ resp.status = 200
            /\ \E t \in tasks : /\ t.id = resp.task
                                /\ t.status = "completed"
                                /\ t.completed_at = resp.saved.completed_at)
    /\ [](resp.op = "pay" =>
            /\ resp.status = 200
            /\ \E f \in fees : f.id = resp.fee /\ f.status = "paid")

\* client c has finished a request of this kind on the task
Finished(c, op) ==
    /\ taskReq[c].pc = "done"
    /\ taskReq[c].op = op
    /\ taskReq[c].status = 200

\* C27: once a mark_completed and a PATCH without status of two clients
\* have both finished on a task, the task is completed, has a completed_at
\* and has the title of the PATCH.
C27_CompletionSurvives ==
    \A c1, c2 \in Clients :
        (/\ c1 # c2
         /\ Finished(c1, "mark_completed")
         /\ Finished(c2, "update_task")
         /\ taskReq[c2].data.status = ABSENT)
        => \E t \in tasks : /\ t.id = taskReq[c1].task
                             /\ t.status = "completed"
                             /\ t.completed_at # NULL
                             /\ t.title = taskReq[c2].data.title

\* the caller is the teacher the task belongs to
OwnsTask(u, t) == users[u].role = "teacher" /\ t.teacher = u

\* C24: a PATCH of the status by the teacher who owns the task is answered
\* 200 and sets the status of the request, whatever the status of the task
\* and whatever value of the enumeration the request has; so cancelled is
\* reached from every status.
C24_AnyStatusFromAny ==
    [][\A t \in tasks :
          (/\ resp'.op = "update_task"
           /\ resp'.task = t.id
           /\ OwnsTask(resp'.caller, t))
          => /\ resp'.status = 200
             /\ [t EXCEPT !.status = resp'.body] \in tasks']_vars

\* a task that was completed has been cancelled by its teacher
C24_Witness ==
    /\ resp.op = "update_task"
    /\ resp.status = 200
    /\ resp.body = "cancelled"
    /\ \E t \in tasks : /\ t.id = resp.task
                        /\ OwnsTask(resp.caller, t)
                        /\ t.status = "cancelled"
                        /\ t.completed_at # NULL

TaskDetailOps ==
    {"retrieve_task", "update_task", "delete_task", "mark_completed",
     "mark_in_progress"}

\* the tasks the claim lets the user see and act on
MayActOn(u, t) == users[u].role = "principal" \/ OwnsTask(u, t)

\* C26: the list of a user has the tasks of the user's own Teacher record
\* (all tasks for a principal, none for a student); a read, update, delete
\* or mark aimed at a task of another teacher is answered 404 and leaves
\* the tasks as they are, and one aimed at a task the user may act on is
\* carried out.
C26_TaskScope ==
    [][/\ resp'.op = "list_tasks" =>
            resp'.ids = {t.id : t \in {x \in tasks :
                                          MayActOn(resp'.caller, x)}}
       /\ \A t \in tasks :
            (resp'.op \in TaskDetailOps /\ resp'.task = t.id) =>
               IF MayActOn(resp'.caller, t)
               THEN resp'.status \in {200, 204}
               ELSE resp'.status = 404 /\ tasks' = tasks]_vars

\* a teacher who has a task has asked for the task of another teacher
C26_Witness ==
    /\ resp.op \in TaskDetailOps
    /\ resp.status = 404
    /\ users[resp.caller].role = "teacher"
    /\ \E own, other \in tasks : /\ own.teacher = resp.caller
                                 /\ other.teacher # resp.caller
                                 /\ other.id = resp.task

\* the fees of a Fee table that are outstanding
Outstanding(rows) == {f \in rows : f.status # "paid"}

\* the reminders written for a fee
RemindersOf(rows, f) == {n \in rows : n.fee = f.id}

\* C25: a completed send_reminders adds one more Notification for every fee
\* that was unpaid or partial when it was called, whether or not the fee had
\* reminders before; so n calls leave n reminders for a fee that stayed
\* outstanding.
C25_RemindersAccumulate ==
    [][(resp'.op = "send_reminders" /\ resp'.status = 200) =>
          \A f \in Outstanding(resp'.fees_at_call) :
             Cardinality(RemindersOf(notifications', f))
                = Cardinality(RemindersOf(resp'.notifications_at_call, f))
                     + 1]_vars

\* a second call has written a second reminder for the same fee
C25_Witness ==
    /\ resp.op = "send_reminders"
    /\ resp.status = 200
    /\ \E f \in Outstanding(resp.fees_at_call) :
          /\ RemindersOf(resp.notifications_at_call, f) # {}
          /\ Cardinality(RemindersOf(notifications, f)) >= 2

\* C28: the response of GET /students/ and of GET /teachers/ is the list as
\* the tables hold it when the request is answered, so it has every
\* create, update and delete that was answered before.
C28_ListsAreCurrent ==
    resp.op = "list" => resp.data = ListNow(resp.list)

\* the components of the reports base directory begin the path
InsideReports(segs) ==
    Len(segs) >= 2 /\ SubSeq(segs, 1, 2) = <<Srv, Reports>>

\* C29: a download answers with the contents of a file only when the file
\* is inside the reports base directory, whatever the report id and the path
\* parameter.
C29_DownloadStaysInside ==
    (resp.op = "download" /\ resp.status = 200)
    => InsideReports(resp.full_path)

\* the rows of the tables that belong to a student other than s
RowsOfOthers(s) ==
    {r \in attendance \cup grades \cup fees : r.student # s}

\* C30: the detail view answers 404 for an id that is no student, 403 with
\* no data for a student who asks for another student, and otherwise, for
\* the student themself, a teacher or the principal, 200 with the record,
\* attendance, grades and fees of the student asked for and of no other.
C30_DetailAccess ==
    resp.op = "student_detail" =>
        LET x == resp.student
            role == users[resp.caller].role
        IN  IF x \notin DOMAIN students
            THEN resp.status = 404 /\ "data" \notin DOMAIN resp
            ELSE IF role = "student" /\ resp.caller # x
            THEN resp.status = 403 /\ "data" \notin DOMAIN resp
            ELSE /\ resp.status = 200
                 /\ resp.data.student.user = x
                 /\ resp.data.attendance = {r \in attendance : r.student = x}
                 /\ resp.data.grades = {g \in grades : g.student = x}
                 /\ resp.data.fees = {f \in fees : f.student = x}
                 /\ (resp.data.attendance \cup resp.data.grades
                        \cup resp.data.fees) \cap RowsOfOthers(x) = {}

\* a student is refused the details of another student who has an
\* attendance row, a grade and a fee
C30_Witness ==
    /\ resp.op = "student_detail"
    /\ resp.status = 403
    /\ users[resp.caller].role = "student"
    /\ resp.student \in DOMAIN students
    /\ \E r \in attendance : r.student = resp.student
    /\ \E g \in grades : g.student = resp.student
    /\ \E f \in fees : f.student = resp.student

====
